---- MODULE Spec2Model ----
(***************************************************************************)
(* Pattern-Scaling: the template size selector, the fabric width resolver  *)
(* and the efficiency / cut-loss evaluator, translated from the Python     *)
(* sources.                                                                *)
(*                                                                         *)
(* Numbers.  Lengths are integers counting 1/32 cm, so that every value    *)
(* the code derives from measurements on a 1/8 cm grid (halves, quarters,  *)
(* 2.5, 3.5, 9.5 ...) is an integer.  On that grid binary floating point   *)
(* is exact for the sums, differences, products and remainders the code    *)
(* computes.  A quotient (an efficiency) is an exact fraction in lowest    *)
(* terms, [num, den] with den > 0.                                         *)
(*                                                                         *)
(* Dictionaries are functions from key strings; reading a key that is not  *)
(* in the DOMAIN is the KeyError outcome.  A call's outcome is a record    *)
(* [exc, val]: exc = "none" is a normal return of val.                     *)
(***************************************************************************)
EXTENDS Integers, Sequences, FiniteSets, TLC

VARIABLES user_measurements, p_measurements, results, csv_file,
          workshop_data, scan_data, dims, analyses, outcome, writers

vars == <<user_measurements, p_measurements, results, csv_file,
          workshop_data, scan_data, dims, analyses, outcome, writers>>

pipeVars == <<user_measurements, p_measurements, results, csv_file>>

batchVars == <<workshop_data, scan_data, dims, analyses, outcome, writers>>

(***************************************************************************)
(* Units and bounds                                                        *)
(***************************************************************************)
Cm(n) == 32 * n

HalfCm(n) == 16 * n

\* the input grid: measurements are multiples of 1/8 cm
Eighth(n) == 4 * n

\* how many grid steps either side of a threshold the inputs cover
Spread == 1

Around(c) == {c + Eighth(k) : k \in (0 - Spread) .. Spread}

EmptyDict == [k \in {} |-> 0]

Ok(v) == [exc |-> "none", val |-> v]

Raise(e) == [exc |-> e, val |-> "none"]

Max2(a, b) == IF a >= b THEN a ELSE b

Max3(a, b, c) == Max2(Max2(a, b), c)

\* max over the seven circumference columns of a scan row
MaxOf7(row) ==
    Max2(Max3(row["Abdomen Circum Tape Measure"],
              row["Axilla Chest Circumference Tape Measure"],
              row["Chest / Bust Circum Tape Measure"]),
         Max2(Max3(row["Hip Circum Tape Measure"],
                   row["Seat Circum Tape Measure"],
                   row["Stomach Max Circum Tape Measure"]),
              row["Waist Circum Tape Measure"]))

Abs(a) == IF a < 0 THEN 0 - a ELSE a

RECURSIVE GCD(_, _)
GCD(a, b) == IF b = 0 THEN a ELSE GCD(b, a % b)

\* the quotient n / d (d # 0) as a fraction in lowest terms
Frac(n, d) ==
    LET g == GCD(Abs(n), Abs(d))
        s == IF d < 0 THEN 0 - 1 ELSE 1
    IN  [num |-> (s * n) \div g, den |-> (s * d) \div g]

\* 1 - q
OneMinus(q) == [num |-> q.den - q.num, den |-> q.den]

\* the float literal -1 / -1.0
MinusOne == [num |-> 0 - 1, den |-> 1]

(***************************************************************************)
(* ps_utils.py / mendeley_scans_analysis.py / my_scan_analysis.py:         *)
(* the ceiling to the next 5 cm bolt boundary, three textual copies.       *)
(* Python's % with a positive divisor is never negative, like TLA+'s.      *)
(***************************************************************************)
\* mutant: rounds to the nearest boundary instead of up
round_to_nearest_bolt(width) ==
    IF 2 * (width % Cm(5)) < Cm(5)
    THEN width - (width % Cm(5))
    ELSE (width + Cm(5)) - (width % Cm(5))

calculate_ideal_bolt_width(width) ==
    IF width % Cm(5) = 0 THEN width ELSE (width + Cm(5)) - (width % Cm(5))

\* mutant: rounds down to the boundary below
round_down_to_bolt(width) == width - (width % Cm(5))

mendeley_calculate_ideal_bolt_width(width) ==
    IF width % Cm(5) = 0 THEN width ELSE (width + Cm(5)) - (width % Cm(5))

myscan_calculate_ideal_bolt_width(width) ==
    IF width % Cm(5) = 0 THEN width ELSE (width + Cm(5)) - (width % Cm(5))

(***************************************************************************)
(* layered_dxf_pattern.py                                                  *)
(***************************************************************************)
\* get_fabric_width, lines 348-352: the local largest_measurement
gfw_largest(um) ==
    IF "shirt_above_hip" \notin DOMAIN um
    THEN Raise("KeyError")
    ELSE IF um["shirt_above_hip"] = 1
         THEN Ok(Max2(um["bust_circ"], um["waist_circ"]))
         ELSE Ok(Max3(um["bust_circ"], um["waist_circ"], um["hip_circ"]))

\* mutant: always steps to the next boundary, also from a multiple of 5
gfw_round_always_up(width) == (width + Cm(5)) - (width % Cm(5))

\* get_fabric_width, line 361: the rounding written out in the return statement
gfw_round(width) ==
    IF width % Cm(5) = 0 THEN width ELSE (width + Cm(5)) - (width % Cm(5))

get_fabric_width(um, pm) ==
    LET lm == gfw_largest(um) IN
    IF lm.exc # "none"
    THEN [exc |-> lm.exc, val |-> "none", largest |-> "unset"]
    ELSE LET width == lm.val + pm["ease"] + pm["sew_tolerance"] IN
         IF um["actual_measure"] = 1
         THEN [exc |-> "none", val |-> width, largest |-> lm.val]
         ELSE [exc |-> "none", val |-> gfw_round(width), largest |-> lm.val]

\* assign_template_size, lines 374-378: the local largest_measurement
ats_largest(um) ==
    IF "shirt_below_hip" \notin DOMAIN um
    THEN Raise("KeyError")
    ELSE IF um["shirt_below_hip"] = 1
         THEN Ok(Max3(um["bust_circ"], um["waist_circ"], um["hip_circ"]))
         ELSE Ok(Max2(um["bust_circ"], um["waist_circ"]))

\* mutant: the lower threshold made inclusive (<= 95 is "smaller than ideal")
ats_band_low_inclusive(largest_measurement, param) ==
    IF param = "b5_width" \/ param = "sleevehead_radius"
    THEN IF largest_measurement <= Cm(95) THEN Cm(12)
         ELSE IF largest_measurement > Cm(125) THEN Cm(16)
         ELSE Cm(14)
    ELSE IF param = "sleevehead_depth"
    THEN IF largest_measurement <= Cm(95) THEN Cm(3)
         ELSE IF largest_measurement > Cm(125) THEN Cm(4)
         ELSE HalfCm(7)
    ELSE "None"

\* assign_template_size, lines 380-391: the band of largest_measurement
ats_band(largest_measurement, param) ==
    IF param = "b5_width" \/ param = "sleevehead_radius"
    THEN IF largest_measurement < Cm(95) THEN Cm(12)
         ELSE IF largest_measurement > Cm(125) THEN Cm(16)
         ELSE Cm(14)
    ELSE IF param = "sleevehead_depth"
    THEN IF largest_measurement < Cm(95) THEN Cm(3)
         ELSE IF largest_measurement > Cm(125) THEN Cm(4)
         ELSE HalfCm(7)
    ELSE "None"

assign_template_size(um, param) ==
    LET lm == ats_largest(um) IN
    IF lm.exc # "none"
    THEN [exc |-> lm.exc, val |-> "none", largest |-> "unset"]
    ELSE [exc |-> "none", val |-> ats_band(lm.val, param), largest |-> lm.val]

\* compute_efficiency mutates p_measurements: the outcome carries the dict as
\* the call leaves it (Eff_Option is already set when line 430 or 433 divides)
compute_efficiency(um, pm) ==
    IF pm["pattern_width"] < um["bolt_width"]
    THEN LET p1 == ("Eff_Option" :> 1) @@ pm IN
         IF um["bolt_width"] = 0
         THEN [exc |-> "ZeroDivisionError", pm |-> p1]
         ELSE [exc |-> "none",
               pm |-> ("Efficiency" :>
                         OneMinus(Frac(um["bolt_width"] - pm["pattern_width"],
                                       um["bolt_width"]))) @@ p1]
    ELSE IF pm["pattern_height"] < um["bolt_width"]
    THEN LET p2 == ("Eff_Option" :> 2) @@ pm IN
         IF um["bolt_width"] = 0
         THEN [exc |-> "ZeroDivisionError", pm |-> p2]
         ELSE [exc |-> "none",
               pm |-> ("Efficiency" :>
                         OneMinus(Frac(um["bolt_width"] - pm["pattern_height"],
                                       um["bolt_width"]))) @@ p2]
    ELSE [exc |-> "none",
          pm |-> ("Eff_Option" :> 3) @@ ("Efficiency" :> MinusOne) @@ pm]

(***************************************************************************)
(* draw_layered_pattern_dxf: the entities added to the modelspace.  A point *)
(* is <<x, y>>; 0.5 *, 0.25 * and 0.75 * are exact on the measurement grid. *)
(***************************************************************************)
Half(x) == x \div 2

Quarter(x) == x \div 4

ThreeQuarters(x) == (3 * x) \div 4

\* the ezdxf calls: the entity each adds
add_line(start, end, layer) ==
    [dxftype |-> "LINE", layer |-> layer, start |-> start, end |-> end]

add_lwpolyline(points, close, layer) ==
    [dxftype |-> "LWPOLYLINE", layer |-> layer, points |-> points, closed |-> close]

add_arc(center, radius, start_angle, end_angle, layer) ==
    [dxftype |-> "ARC", layer |-> layer, center |-> center, radius |-> radius,
     start_angle |-> start_angle, end_angle |-> end_angle]

add_spline(fit_points, layer) ==
    [dxftype |-> "SPLINE", layer |-> layer, fit_points |-> fit_points]

\* pattern_height - collar_length, the y the source writes out in every call
collar_line(pm) == pm["pattern_height"] - pm["collar_length"]

\* lines 59-60: b5_height = b5_width; b5_x = b5_y = b5_width * 0.5
b5_height(pm) == pm["b5_width"]

b5_x(pm) == Half(pm["b5_width"])

b5_y(pm) == Half(pm["b5_width"])

\* mutant: the right-most collar piece one collar width too far left
collar_positions_crowded(pm) ==
    <<  <<0, collar_line(pm)>>,
        <<Half(pm["pattern_width"]) - pm["collar_width"], collar_line(pm)>>,
        <<Half(pm["pattern_width"]), collar_line(pm)>>,
        <<pm["pattern_width"] - (2 * pm["collar_width"]), collar_line(pm)>> >>

\* lines 66-71
collar_positions(pm) ==
    <<  <<0, collar_line(pm)>>,
        <<Half(pm["pattern_width"]) - pm["collar_width"], collar_line(pm)>>,
        <<Half(pm["pattern_width"]), collar_line(pm)>>,
        <<pm["pattern_width"] - pm["collar_width"], collar_line(pm)>> >>

\* lines 72-73: one closed polyline per collar position
collar_layer(pm) ==
    LET collar_width == pm["collar_width"]
        collar_length == pm["collar_length"]
        rect(pos) ==
            LET x == pos[1]
                y == pos[2]
            IN  add_lwpolyline(<< <<x, y>>, <<x + collar_width, y>>,
                                  <<x + collar_width, y + collar_length>>,
                                  <<x, y + collar_length>>, <<x, y>> >>,
                               TRUE, "Collar")
    IN  [i \in 1 .. Len(collar_positions(pm)) |-> rect(collar_positions(pm)[i])]

\* lines 79-82
left_horizontal_end(pm) == <<b5_x(pm), collar_line(pm) - b5_height(pm)>>

\* mutant: the vertical segment started at the corner of the L
left_vertical_end_at_corner(pm) == <<pm["b5_width"], collar_line(pm) - b5_height(pm)>>

left_vertical_end(pm) == <<pm["b5_width"], collar_line(pm) - b5_y(pm)>>

right_horizontal_end(pm) ==
    <<pm["pattern_width"] - b5_x(pm), collar_line(pm) - b5_height(pm)>>

right_vertical_end(pm) ==
    <<pm["pattern_width"] - pm["b5_width"], collar_line(pm) - b5_y(pm)>>

\* line 94
radius(pm) == b5_x(pm)

\* mutant: the arc centred on the corner of the L
left_arc_center_at_corner(pm) == <<pm["b5_width"], collar_line(pm) - b5_height(pm)>>

\* line 95
left_arc_center(pm) == <<b5_x(pm), collar_line(pm) - b5_y(pm)>>

\* mutant: the right centre a whole facing width from the edge
right_arc_center_shifted(pm) ==
    <<pm["pattern_width"] - pm["b5_width"], collar_line(pm) - b5_y(pm)>>

\* line 96
right_arc_center(pm) == <<pm["pattern_width"] - b5_x(pm), collar_line(pm) - b5_y(pm)>>

\* lines 85-107
b5_layer(pm) ==
    LET pattern_width == pm["pattern_width"]
        b5_width == pm["b5_width"]
        low == collar_line(pm) - b5_height(pm)
    IN  <<add_line(<<0, low>>, left_horizontal_end(pm), "B5"),
          add_line(left_vertical_end(pm), <<b5_width, collar_line(pm)>>, "B5"),
          add_line(right_horizontal_end(pm), <<pattern_width, low>>, "B5"),
          add_line(<<pattern_width - b5_width, collar_line(pm)>>,
                   right_vertical_end(pm), "B5"),
          add_lwpolyline(<< <<0, low>>, <<0, collar_line(pm)>>,
                            <<b5_width, collar_line(pm)>> >>, FALSE, "B5"),
          add_lwpolyline(<< <<pattern_width, low>>, <<pattern_width, collar_line(pm)>>,
                            <<pattern_width - b5_width, collar_line(pm)>> >>,
                         FALSE, "B5"),
          add_arc(left_arc_center(pm), radius(pm), 270, 360, "B5"),
          add_arc(right_arc_center(pm), radius(pm), 180, 270, "B5")>>

\* mutant: the control point on the collar line, no depth
sleeve_data_flat(pm) ==
    LET sleevehead_radius == pm["sleevehead_radius"]
        curve(center_x) ==
            << <<center_x - sleevehead_radius, collar_line(pm)>>,
               <<center_x, collar_line(pm)>>,
               <<center_x + sleevehead_radius, collar_line(pm)>> >>
    IN  <<curve(Quarter(pm["pattern_width"])), curve(ThreeQuarters(pm["pattern_width"]))>>

\* lines 111-114: (start, control, end) of the two sleevehead curves
sleeve_data(pm) ==
    LET sleevehead_radius == pm["sleevehead_radius"]
        sleevehead_depth == pm["sleevehead_depth"]
        curve(center_x) ==
            << <<center_x - sleevehead_radius, collar_line(pm)>>,
               <<center_x, collar_line(pm) - sleevehead_depth>>,
               <<center_x + sleevehead_radius, collar_line(pm)>> >>
    IN  <<curve(Quarter(pm["pattern_width"])), curve(ThreeQuarters(pm["pattern_width"]))>>

\* lines 115-132
sleeve_layer(pm) ==
    LET pattern_width == pm["pattern_width"]
        pattern_height == pm["pattern_height"]
        collar_width == pm["collar_width"]
        sleevehead_radius == pm["sleevehead_radius"]
        y == collar_line(pm)
    IN  <<add_spline(sleeve_data(pm)[1], "Sleeve"),
          add_spline(sleeve_data(pm)[2], "Sleeve"),
          add_line(<<collar_width, y>>,
                   <<Quarter(pattern_width) - sleevehead_radius, y>>, "Sleeve"),
          add_line(<<Quarter(pattern_width) + sleevehead_radius, y>>,
                   <<Half(pattern_width) - collar_width, y>>, "Sleeve"),
          add_line(<<Half(pattern_width) + collar_width, y>>,
                   <<ThreeQuarters(pattern_width) - sleevehead_radius, y>>, "Sleeve"),
          add_line(<<ThreeQuarters(pattern_width) + sleevehead_radius, y>>,
                   <<pattern_width - collar_width, y>>, "Sleeve"),
          add_line(<<collar_width, pattern_height>>, <<collar_width, y>>, "Sleeve"),
          add_line(<<Half(pattern_width) - collar_width, pattern_height>>,
                   <<Half(pattern_width) - collar_width, y>>, "Sleeve"),
          add_line(<<Half(pattern_width) + collar_width, pattern_height>>,
                   <<Half(pattern_width) + collar_width, y>>, "Sleeve"),
          add_line(<<pattern_width - collar_width, pattern_height>>,
                   <<pattern_width - collar_width, y>>, "Sleeve"),
          add_line(<<collar_width, pattern_height>>,
                   <<Half(pattern_width) - collar_width, pattern_height>>, "Sleeve"),
          add_line(<<Half(pattern_width) + collar_width, pattern_height>>,
                   <<pattern_width - collar_width, pattern_height>>, "Sleeve")>>

\* line 154, the local armhole_length
armhole_length(pm) == Half(Half(pm["pattern_width"]) - (2 * pm["collar_width"]))

\* mutant: the drop hung from the collar line instead of the curve's lowest point
armhole_lines_from_collar_line(pm) ==
    LET drop(x) == add_line(<<x, collar_line(pm)>>,
                            <<x, collar_line(pm) - armhole_length(pm)>>, "Bodice")
    IN  <<drop(Quarter(pm["pattern_width"])), drop(ThreeQuarters(pm["pattern_width"]))>>

\* lines 156-157
armhole_lines(pm) ==
    LET top == collar_line(pm) - pm["sleevehead_depth"]
        drop(x) == add_line(<<x, top>>, <<x, top - armhole_length(pm)>>, "Bodice")
    IN  <<drop(Quarter(pm["pattern_width"])), drop(ThreeQuarters(pm["pattern_width"]))>>

\* lines 136-157
bodice_layer(pm) ==
    LET pattern_width == pm["pattern_width"]
        b5_width == pm["b5_width"]
        sleevehead_radius == pm["sleevehead_radius"]
        y == collar_line(pm)
        low == collar_line(pm) - b5_height(pm)
    IN  <<add_line(<<0, low>>, left_horizontal_end(pm), "Bodice"),
          add_line(left_vertical_end(pm), <<b5_width, y>>, "Bodice"),
          add_line(right_horizontal_end(pm), <<pattern_width, low>>, "Bodice"),
          add_line(<<pattern_width - b5_width, y>>, right_vertical_end(pm), "Bodice"),
          add_arc(left_arc_center(pm), radius(pm), 270, 360, "Bodice"),
          add_arc(right_arc_center(pm), radius(pm), 180, 270, "Bodice"),
          add_spline(sleeve_data(pm)[1], "Bodice"),
          add_spline(sleeve_data(pm)[2], "Bodice"),
          add_line(<<b5_width, y>>,
                   <<Quarter(pattern_width) - sleevehead_radius, y>>, "Bodice"),
          add_line(<<Quarter(pattern_width) + sleevehead_radius, y>>,
                   <<ThreeQuarters(pattern_width) - sleevehead_radius, y>>, "Bodice"),
          add_line(<<ThreeQuarters(pattern_width) + sleevehead_radius, y>>,
                   <<pattern_width - b5_width, y>>, "Bodice"),
          add_lwpolyline(<< <<0, low>>, <<0, 0>>, <<pattern_width, 0>>,
                            <<pattern_width, low>> >>, FALSE, "Bodice")>>
        \o armhole_lines(pm)

\* lines 162-173: the notch lines
sew_layer(pm) ==
    LET pattern_width == pm["pattern_width"]
        y == collar_line(pm)
        low == collar_line(pm) - b5_height(pm)
        front(x) == add_line(<<x, low>>, <<x, 0>>, "Sew")
        back(x, len) == add_line(<<x, y>>, <<x, y - len>>, "Sew")
    IN  <<front(HalfCm(5)),
          front(pattern_width - HalfCm(5)),
          front(HalfCm(5) + Cm(3)),
          front((pattern_width - HalfCm(5)) - Cm(3)),
          back(Half(pattern_width), Cm(1)),
          back(Half(pattern_width) - HalfCm(19), Cm(14)),
          back(Half(pattern_width) + HalfCm(19), Cm(14)),
          back((Half(pattern_width) - HalfCm(19)) - HalfCm(9), Cm(1)),
          back((Half(pattern_width) + HalfCm(19)) + HalfCm(9), Cm(1))>>

\* the modelspace as doc.saveas writes it (line 178), entities in the order added
modelspace(pm) ==
    collar_layer(pm) \o b5_layer(pm) \o sleeve_layer(pm) \o bodice_layer(pm)
    \o sew_layer(pm)

\* draw_pdf_with_dimensions, line 197: the local armhole_length
pdf_armhole_length(pm) == Half(Half(pm["pattern_width"]) - (2 * pm["collar_width"]))

\* the matplotlib calls: the artist each adds (a Path of MOVETO, CURVE3,
\* CURVE3 is a quadratic Bezier curve through start, control, end)
Rectangle(xy, width, height) ==
    [patch |-> "Rectangle", xy |-> xy, width |-> width, height |-> height]

PathPatch(vertices) == [patch |-> "PathPatch", vertices |-> vertices]

plot(xs, ys, color) == [xs |-> xs, ys |-> ys, color |-> color]

\* draw_pdf_with_dimensions, lines 200-252: the patches added to the axis, in
\* the order added
ax_patches(pm) ==
    LET pattern_width == pm["pattern_width"]
        pattern_height == pm["pattern_height"]
        collar_width == pm["collar_width"]
        collar_length == pm["collar_length"]
        b5_width == pm["b5_width"]
        sleevehead_depth == pm["sleevehead_depth"]
        sleevehead_radius == pm["sleevehead_radius"]
        y == pattern_height - collar_length
        low == y - b5_height(pm)
        sleeve(center_x) ==
            PathPatch(<< <<center_x - sleevehead_radius, y>>,
                         <<center_x, y - (2 * sleevehead_depth)>>,
                         <<center_x + sleevehead_radius, y>> >>)
    IN  <<Rectangle(<<0, 0>>, pattern_width, pattern_height),
          Rectangle(<<0, y>>, collar_width, collar_length),
          Rectangle(<<Half(pattern_width) - collar_width, y>>, collar_width, collar_length),
          Rectangle(<<Half(pattern_width), y>>, collar_width, collar_length),
          Rectangle(<<pattern_width - collar_width, y>>, collar_width, collar_length),
          PathPatch(<< <<b5_x(pm), low>>, <<b5_width, low>>,
                       <<b5_width, y - b5_y(pm)>> >>),
          PathPatch(<< <<pattern_width - b5_x(pm), low>>,
                       <<pattern_width - b5_width, low>>,
                       <<pattern_width - b5_width, y - b5_y(pm)>> >>),
          sleeve(Quarter(pattern_width)),
          sleeve(ThreeQuarters(pattern_width))>>

\* draw_pdf_with_dimensions, lines 215-284: the lines plotted, in the order
\* plotted (the dimension annotations of lines 286-326 are text placed at
\* offsets such as 0.2 and 4.6 cm and are not part of the pattern)
ax_lines(pm) ==
    LET pattern_width == pm["pattern_width"]
        collar_width == pm["collar_width"]
        b5_width == pm["b5_width"]
        sleevehead_depth == pm["sleevehead_depth"]
        sleevehead_radius == pm["sleevehead_radius"]
        y == pm["pattern_height"] - pm["collar_length"]
        low == y - b5_height(pm)
        top == y - sleevehead_depth
        hem(x) == plot(<<x, x>>, <<low, 0>>, "k")
        front(x) == plot(<<x, x>>, <<low, low - Cm(1)>>, "k")
        back(x, len) == plot(<<x, x>>, <<y, y - len>>, "k")
    IN  <<plot(<<0, b5_x(pm)>>, <<low, low>>, "b"),
          plot(<<pattern_width - b5_x(pm), pattern_width>>, <<low, low>>, "b"),
          plot(<<b5_width, b5_width>>, <<y, y - b5_y(pm)>>, "b"),
          plot(<<pattern_width - b5_width, pattern_width - b5_width>>,
               <<y, y - b5_y(pm)>>, "b"),
          plot(<<collar_width, Quarter(pattern_width) - sleevehead_radius>>,
               <<y, y>>, "b"),
          plot(<<Quarter(pattern_width) + sleevehead_radius,
                 Half(pattern_width) - collar_width>>, <<y, y>>, "b"),
          plot(<<Half(pattern_width) + collar_width,
                 ThreeQuarters(pattern_width) - sleevehead_radius>>, <<y, y>>, "b"),
          plot(<<ThreeQuarters(pattern_width) + sleevehead_radius,
                 pattern_width - collar_width>>, <<y, y>>, "b"),
          plot(<<Quarter(pattern_width), Quarter(pattern_width)>>,
               <<top, top - pdf_armhole_length(pm)>>, "b"),
          plot(<<ThreeQuarters(pattern_width), ThreeQuarters(pattern_width)>>,
               <<top, top - pdf_armhole_length(pm)>>, "b"),
          hem(HalfCm(5)),
          hem(pattern_width - HalfCm(5)),
          hem(HalfCm(5) + Cm(3)),
          hem((pattern_width - HalfCm(5)) - Cm(3)),
          front(HalfCm(5)),
          front(pattern_width - HalfCm(5)),
          front(HalfCm(5) + Cm(3)),
          front((pattern_width - HalfCm(5)) - Cm(3)),
          front((HalfCm(5) + Cm(3)) + Cm(3)),
          front(((pattern_width - HalfCm(5)) - Cm(3)) - Cm(3)),
          back(Half(pattern_width) - HalfCm(19), Cm(14)),
          back(Half(pattern_width) + HalfCm(19), Cm(14)),
          back(Half(pattern_width), Cm(1)),
          back(Half(pattern_width) - HalfCm(19), Cm(1)),
          back(Half(pattern_width) + HalfCm(19), Cm(1)),
          back((Half(pattern_width) - HalfCm(19)) - HalfCm(9), Cm(1)),
          back((Half(pattern_width) + HalfCm(19)) + HalfCm(9), Cm(1))>>

\* mutant: the drawing also writes its local b5_x back as the facing width
draw_layered_pattern_dxf_halving_b5(pm) ==
    ("armhole_length" :>
        ((pm["pattern_width"] \div 2) - (2 * pm["collar_width"])) \div 2)
    @@ ("b5_width" :> pm["b5_width"] \div 2) @@ pm

\* draw_layered_pattern_dxf, lines 154-155: what the drawing leaves in the
\* record (0.5 * (0.5 * pattern_width - 2 * collar_width))
draw_layered_pattern_dxf(pm) ==
    ("armhole_length" :>
        ((pm["pattern_width"] \div 2) - (2 * pm["collar_width"])) \div 2) @@ pm

NoFile == [exists |-> FALSE, rows |-> <<>>]

\* mutant: the header written on every call
update_db_header_every_call(um, pm, file) ==
    LET data_to_append == pm @@ um
        fieldnames == DOMAIN data_to_append
        header == [kind |-> "header", fields |-> fieldnames, data |-> EmptyDict]
        row == [kind |-> "row", fields |-> fieldnames, data |-> data_to_append]
    IN  [exists |-> TRUE, rows |-> file.rows \o <<header, row>>]

\* update_db: header when the file did not exist, then one appended row
update_db(um, pm, file) ==
    LET data_to_append == pm @@ um
        fieldnames == DOMAIN data_to_append
        header == [kind |-> "header", fields |-> fieldnames, data |-> EmptyDict]
        row == [kind |-> "row", fields |-> fieldnames, data |-> data_to_append]
    IN  [exists |-> TRUE,
         rows |-> IF file.exists THEN Append(file.rows, row)
                                 ELSE <<header, row>>]

\* calculate_and_draw, lines 446-452: the fixed part of p_measurements
FixedParams(um) ==
    [person_id |-> um["person_id"], ease |-> Cm(25), sew_tolerance |-> Cm(6),
     collar_width |-> HalfCm(19), collar_length |-> Cm(25)]

\* calculate_and_draw: the outcome, the record as the run leaves it, the
\* functions entered in order, and the CSV file
calculate_and_draw(um, file) ==
    LET shirt_length == um["desired_shirt_length"]
        p0 == FixedParams(um)
        sd == assign_template_size(um, "sleevehead_depth")
        sr == assign_template_size(um, "sleevehead_radius")
        bw == assign_template_size(um, "b5_width")
        t1 == <<"assign_template_size">>
        t2 == Append(t1, "assign_template_size")
        t3 == Append(t2, "assign_template_size")
        t4 == Append(t3, "get_fabric_width")
        p1 == ("sleevehead_depth" :> sd.val) @@ p0
        p2 == ("sleevehead_radius" :> sr.val) @@ p1
        p3 == ("b5_width" :> bw.val) @@ p2
        p4 == ("pattern_height" :> shirt_length + p3["collar_length"] + HalfCm(5)) @@ p3
        fw == get_fabric_width(um, p4)
        p5 == ("pattern_width" :> fw.val) @@ p4
        p6 == draw_layered_pattern_dxf(p5)
        t7 == t4 \o <<"draw_layered_pattern_dxf", "draw_pdf_with_dimensions",
                      "compute_efficiency">>
        ce == compute_efficiency(um, p6)
    IN  IF sd.exc # "none" THEN [exc |-> sd.exc, pm |-> p0, trail |-> t1, file |-> file]
        ELSE IF sr.exc # "none" THEN [exc |-> sr.exc, pm |-> p1, trail |-> t2, file |-> file]
        ELSE IF bw.exc # "none" THEN [exc |-> bw.exc, pm |-> p2, trail |-> t3, file |-> file]
        ELSE IF fw.exc # "none" THEN [exc |-> fw.exc, pm |-> p4, trail |-> t4, file |-> file]
        ELSE IF ce.exc # "none" THEN [exc |-> ce.exc, pm |-> ce.pm, trail |-> t7, file |-> file]
        ELSE [exc |-> "none", pm |-> ce.pm, trail |-> Append(t7, "update_db"),
              file |-> update_db(um, ce.pm, file)]

(***************************************************************************)
(* ps_utils.py and add_workshop_data.py: the workshop analysis             *)
(***************************************************************************)
\* the number -1 that marks "no fit", as a length, an area and a ratio
SentinelWidth == 0 - Cm(1)

SentinelArea == 0 - (Cm(1) * Cm(1))

\* mutant: the ideal efficiency taken against the bolt that was used
assign_ideal_values_by_used_bolt(result) ==
    LET bolt_width_ideal == calculate_ideal_bolt_width(result["pattern_width"])
        cut_loss_width_ideal == bolt_width_ideal - result["pattern_width"]
        cut_loss_area_ideal == cut_loss_width_ideal * result["pattern_height"]
    IN  IF result["bolt_width_used"] = 0
        THEN Raise("ZeroDivisionError")
        ELSE Ok([bolt_width_ideal |-> bolt_width_ideal,
                 cut_loss_width_ideal |-> cut_loss_width_ideal,
                 cut_loss_area_ideal |-> cut_loss_area_ideal,
                 efficiency_ideal |->
                     Frac(result["pattern_width"], result["bolt_width_used"])]
                @@ result)

\* ps_utils.assign_ideal_values: the result with the ideal fields added
assign_ideal_values(result) ==
    LET bolt_width_ideal == calculate_ideal_bolt_width(result["pattern_width"])
        cut_loss_width_ideal == bolt_width_ideal - result["pattern_width"]
        cut_loss_area_ideal == cut_loss_width_ideal * result["pattern_height"]
    IN  IF bolt_width_ideal = 0
        THEN Raise("ZeroDivisionError")
        ELSE Ok([bolt_width_ideal |-> bolt_width_ideal,
                 cut_loss_width_ideal |-> cut_loss_width_ideal,
                 cut_loss_area_ideal |-> cut_loss_area_ideal,
                 efficiency_ideal |-> Frac(result["pattern_width"], bolt_width_ideal)]
                @@ result)

\* add_workshop_data.analyze_data, lines 61-101: where each ease and each
\* rating of a finished garment is read from
EaseSource ==
    [FG_bust_ease |-> <<"FG_bust_circ", "bust_circ">>,
     FG_waist_ease |-> <<"FG_waist_circ", "waist_circ">>,
     FG_hip_ease |-> <<"FG_hip_circ", "hip_circ">>,
     FG_arm_ease |-> <<"FG_arm_circ", "arm_circ">>,
     FG_neck_ease |-> <<"FG_neckline", "neck_circ">>,
     FG_shoulder_ease |-> <<"FG_shoulder_width", "shoulder_width">>]

RatingSource ==
    [fit_bust |-> "likert_fit_bust", comfort_bust |-> "likert_comfort_bust",
     fit_waist |-> "likert_fit_waist", comfort_waist |-> "likert_comfort_waist",
     fit_hip |-> "likert_fit_hips", comfort_hip |-> "likert_comfort_hips",
     fit_arm |-> "likert_fit_arms", comfort_arm |-> "likert_comfort_arms",
     fit_neck |-> "likert_fit_neck", comfort_neck |-> "likert_comfort_neck",
     fit_shoulder |-> "likert_fit_shoulders",
     comfort_shoulder |-> "likert_comfort_shoulders"]

finished_garment_fields(row) ==
    IF row["garment_finished"] = 1
    THEN [k \in DOMAIN EaseSource |-> row[EaseSource[k][1]] - row[EaseSource[k][2]]]
         @@ [k \in DOMAIN RatingSource |-> row[RatingSource[k]]]
    ELSE [k \in DOMAIN EaseSource \cup DOMAIN RatingSource |-> "None"]

\* mutant: the cut-loss area taken along the pattern width, not its height
workshop_used_fields_area_by_width(row) ==
    LET cut_loss_width_used == row["bolt_width"] - row["pattern_width"]
        cut_loss_area_used == cut_loss_width_used * row["pattern_width"]
        denominator == row["bolt_width"] * row["pattern_height"]
    IN  IF denominator = 0
        THEN Raise("ZeroDivisionError")
        ELSE Ok([person_id |-> row["person_id"],
                 pattern_width |-> row["pattern_width"],
                 pattern_height |-> row["pattern_height"],
                 bolt_width_used |-> row["bolt_width"],
                 cut_loss_width_used |-> cut_loss_width_used,
                 cut_loss_area_used |-> cut_loss_area_used,
                 efficiency_used |-> OneMinus(Frac(cut_loss_area_used, denominator))])

\* add_workshop_data.analyze_data, lines 30-38: the used-bolt fields of a row
workshop_used_fields(row) ==
    LET cut_loss_width_used == row["bolt_width"] - row["pattern_width"]
        cut_loss_area_used == cut_loss_width_used * row["pattern_height"]
        denominator == row["bolt_width"] * row["pattern_height"]
    IN  IF denominator = 0
        THEN Raise("ZeroDivisionError")
        ELSE Ok([person_id |-> row["person_id"],
                 pattern_width |-> row["pattern_width"],
                 pattern_height |-> row["pattern_height"],
                 bolt_width_used |-> row["bolt_width"],
                 cut_loss_width_used |-> cut_loss_width_used,
                 cut_loss_area_used |-> cut_loss_area_used,
                 efficiency_used |-> OneMinus(Frac(cut_loss_area_used, denominator))])

\* add_workshop_data.analyze_data: the body of the loop, for one row
workshop_result(row) ==
    LET used == workshop_used_fields(row) IN
    IF used.exc # "none" THEN used
    ELSE LET ideal == assign_ideal_values(used.val) IN
         IF ideal.exc # "none" THEN ideal
         ELSE Ok(finished_garment_fields(row) @@ ideal.val)

\* add_workshop_data.analyze_data: the loop; an exception leaves the loop and
\* the function, and the list built so far is lost with it
RECURSIVE workshop_loop(_, _)
workshop_loop(rows, acc) ==
    IF rows = <<>> THEN Ok(acc)
    ELSE LET r == workshop_result(Head(rows)) IN
         IF r.exc # "none" THEN Raise(r.exc)
         ELSE workshop_loop(Tail(rows), Append(acc, r.val))

workshop_analyze_data(data) == workshop_loop(data, <<>>)

\* mutant: the threshold made strict (exactly 11 cm is not enough)
pocket_row_strict(row, append) ==
    LET flagged ==
            IF row["cut_loss_width_used"] > Cm(11)
            THEN IF row["cut_loss_area_used"] = 0
                 THEN Raise("ZeroDivisionError")
                 ELSE Ok(("pocket_possible" :> TRUE)
                         @@ ("embellished_saved" :>
                               Frac(275 * Cm(1) * Cm(1), row["cut_loss_area_used"]))
                         @@ row)
            ELSE Ok(("pocket_possible" :> FALSE)
                    @@ ("embellished_saved" :> Frac(0, 1)) @@ row)
    IN  IF flagged.exc # "none" \/ ~append THEN flagged
        ELSE Ok(("embellished_saved_150" :> flagged.val["embellished_saved"])
                @@ flagged.val)

\* ps_utils.add_pocket, lines 71-78, for one row
pocket_row(row, append) ==
    LET flagged ==
            IF row["cut_loss_width_used"] >= Cm(11)
            THEN IF row["cut_loss_area_used"] = 0
                 THEN Raise("ZeroDivisionError")
                 ELSE Ok(("pocket_possible" :> TRUE)
                         @@ ("embellished_saved" :>
                               Frac(275 * Cm(1) * Cm(1), row["cut_loss_area_used"]))
                         @@ row)
            ELSE Ok(("pocket_possible" :> FALSE)
                    @@ ("embellished_saved" :> Frac(0, 1)) @@ row)
    IN  IF flagged.exc # "none" \/ ~append THEN flagged
        ELSE Ok(("embellished_saved_150" :> flagged.val["embellished_saved"])
                @@ flagged.val)

RECURSIVE pocket_loop(_, _, _)
pocket_loop(rows, acc, append) ==
    IF rows = <<>> THEN Ok(acc)
    ELSE LET r == pocket_row(Head(rows), append) IN
         IF r.exc # "none" THEN Raise(r.exc)
         ELSE pocket_loop(Tail(rows), Append(acc, r.val), append)

\* ps_utils.add_pocket(analyses) as the workshop main calls it
add_pocket(rows) == pocket_loop(rows, <<>>, FALSE)

(***************************************************************************)
(* mendeley_scans_analysis.py                                              *)
(***************************************************************************)
\* math.ceil(x * 2) / 2: up to the next half centimetre
ceil_half(x) == ((x + (HalfCm(1) - 1)) \div HalfCm(1)) * HalfCm(1)

calculate_pattern_width(row) ==
    LET raw_max == MaxOf7(row)
        max_bodice_circ == ceil_half(raw_max)
    IN  max_bodice_circ + Cm(25) + Cm(6)

calculate_pattern_height(row) ==
    LET raw_shirt_length == (row["Half Back Center Tape Measure"]
                             + row["Waist Height"]) - row["Crotch Height"]
        shirt_length == ceil_half(raw_shirt_length)
    IN  shirt_length + Cm(25) + HalfCm(5)

\* analyze_data, lines 90-109: the result of one scan row
mendeley_result(row) ==
    LET pattern_width == calculate_pattern_width(row)
        pattern_height == calculate_pattern_height(row)
        bolt_width_used == Cm(150)
        fits == ~(pattern_width > bolt_width_used)
        cut_loss_width_used == bolt_width_used - pattern_width
        cut_loss_area_used == cut_loss_width_used * pattern_height
        bolt_width_ideal == mendeley_calculate_ideal_bolt_width(pattern_width)
        cut_loss_width_ideal == bolt_width_ideal - pattern_width
        cut_loss_area_ideal == cut_loss_width_ideal * pattern_height
    IN  IF fits /\ bolt_width_used * pattern_height = 0
        THEN Raise("ZeroDivisionError")
        ELSE IF bolt_width_ideal * pattern_height = 0
        THEN Raise("ZeroDivisionError")
        ELSE Ok([person_id |-> row["Scan Code"],
                 pattern_width |-> pattern_width,
                 pattern_height |-> pattern_height,
                 bolt_width_used |-> bolt_width_used,
                 cut_loss_width_used |->
                     IF fits THEN cut_loss_width_used ELSE SentinelWidth,
                 cut_loss_area_used |->
                     IF fits THEN cut_loss_area_used ELSE SentinelArea,
                 efficiency_used |->
                     IF fits
                     THEN OneMinus(Frac(cut_loss_area_used,
                                        bolt_width_used * pattern_height))
                     ELSE MinusOne,
                 bolt_width_ideal |-> bolt_width_ideal,
                 cut_loss_width_ideal |-> cut_loss_width_ideal,
                 cut_loss_area_ideal |-> cut_loss_area_ideal,
                 efficiency_ideal |->
                     OneMinus(Frac(cut_loss_area_ideal,
                                   bolt_width_ideal * pattern_height))])

\* mutant: the result left where append put it
sorted_append_unsorted(acc, x) == Append(acc, x)

\* sorted(analyses, key=person_id) after an append to a sorted list (stable)
sorted_append(acc, x) ==
    SelectSeq(acc, LAMBDA e : e["person_id"] <= x["person_id"])
    \o <<x>>
    \o SelectSeq(acc, LAMBDA e : e["person_id"] > x["person_id"])

RECURSIVE mendeley_loop(_, _)
mendeley_loop(rows, acc) ==
    IF rows = <<>> THEN Ok(acc)
    ELSE LET r == mendeley_result(Head(rows)) IN
         IF r.exc # "none" THEN Raise(r.exc)
         ELSE mendeley_loop(Tail(rows), sorted_append(acc, r.val))

mendeley_analyze_data(data) == mendeley_loop(data, <<>>)

\* mendeley_scans_analysis.add_pocket
mendeley_add_pocket(rows) ==
    [i \in 1 .. Len(rows) |->
        ("pocket_possible" :>
            (IF rows[i]["cut_loss_width_used"] >= Cm(11) THEN "Yes" ELSE "No"))
        @@ rows[i]]

\* generate_plots, lines 133-139: the scan columns plotted against efficiency_used
ScatterColumns ==
    {"Abdomen Circum Tape Measure", "Chest / Bust Circum Tape Measure",
     "Hip Circum Tape Measure", "Seat Circum Tape Measure",
     "Stomach Max Circum Tape Measure", "Waist Circum Tape Measure", "Height cm"}

\* generate_plots: the points of each scatter plot; scatter(x, y) pairs the
\* i-th entry of the list taken from scan_data with the i-th entry of the
\* list taken from analyses
generate_plots(rows, data) ==
    LET efficiency_used == [i \in DOMAIN rows |-> rows[i]["efficiency_used"]]
        column(c) == [i \in DOMAIN data |-> data[i][c]]
    IN  [c \in ScatterColumns |->
            [i \in DOMAIN data |-> <<column(c)[i], efficiency_used[i]>>]]

\* generate_bar_graphs, lines 257-270: for each bolt width of
\* range(110, 170, 10) the counts [regular_fit, flipped_fit, embellished]
generate_bar_graphs(rows) ==
    [bolt_width \in {Cm(110 + (10 * k)) : k \in 0 .. 5} |->
        LET regular(i) == rows[i]["pattern_width"] <= bolt_width
            flipped(i) == ~regular(i) /\ rows[i]["pattern_height"] <= bolt_width
        IN  [regular_fit |-> Cardinality({i \in DOMAIN rows : regular(i)}),
             flipped_fit |-> Cardinality({i \in DOMAIN rows : flipped(i)}),
             embellished |->
                Cardinality({i \in DOMAIN rows :
                    \/ regular(i) /\ bolt_width - rows[i]["pattern_width"] >= Cm(11)
                    \/ flipped(i) /\ bolt_width - rows[i]["pattern_height"] >= Cm(11)})]]

(***************************************************************************)
(* Input records                                                           *)
(***************************************************************************)
Circs == {Cm(0), Cm(80), Cm(94), Cm(99), Cm(100)} \cup Around(Cm(95)) \cup Around(Cm(125))

WaistCircs == {Cm(80), Cm(110), Cm(126)}

ShirtLengths == {Cm(70), HalfCm(205)}

BoltWidths == {Cm(130), Cm(150)}

Flags == {0, 1}

\* main, lines 479-491: the record main builds from the prompts
MainRecord(len, above, bust, waist, hip, actual, bolt) ==
    [person_id |-> "p1", desired_shirt_length |-> len, shirt_above_hip |-> above,
     bust_circ |-> bust, waist_circ |-> waist, hip_circ |-> hip,
     arm_circ |-> Cm(30), neck_circ |-> Cm(38), shoulder_width |-> Cm(42),
     desired_sleeve_length |-> Cm(25), actual_measure |-> actual,
     bolt_width |-> bolt]

MainRecords ==
    {MainRecord(len, above, bust, waist, hip, actual, bolt) :
        len \in ShirtLengths, above \in Flags, bust \in Circs,
        waist \in WaistCircs, hip \in Circs, actual \in Flags,
        bolt \in BoltWidths}

Without(d, k) == [x \in DOMAIN d \ {k} |-> d[x]]

\* records of a caller that passes the key assign_template_size reads
\* (line 375), with or without the key get_fabric_width reads (line 349)
CallerRecords ==
    {("shirt_below_hip" :> below) @@ r : below \in Flags, r \in MainRecords}
    \cup {("shirt_below_hip" :> below) @@ Without(r, "shirt_above_hip") :
            below \in Flags, r \in {m \in MainRecords : m["shirt_above_hip"] = 0}}

UserRecords == MainRecords \cup CallerRecords

Params == {"b5_width", "sleevehead_radius", "sleevehead_depth", "collar_width"}

(***************************************************************************)
(* Spec: one measurement record, the operations of layered_dxf_pattern.py  *)
(* applied to it                                                           *)
(***************************************************************************)
BatchIdle ==
    /\ workshop_data = <<>>
    /\ scan_data = <<>>
    /\ dims = EmptyDict
    /\ analyses = <<>>
    /\ outcome = "idle"
    /\ writers = <<>>

Init ==
    /\ user_measurements \in UserRecords
    /\ p_measurements = FixedParams(user_measurements)
    /\ results = EmptyDict
    /\ csv_file = NoFile
    /\ BatchIdle

AssignTemplateSize ==
    /\ "assign_template_size" \notin DOMAIN results
    /\ "calculate_and_draw" \notin DOMAIN results
    /\ \E param \in Params :
         results' = ("assign_template_size" :>
                        [param |-> param,
                         ret |-> assign_template_size(user_measurements, param)])
                    @@ results
    /\ UNCHANGED <<user_measurements, p_measurements, csv_file>>
    /\ UNCHANGED batchVars

GetFabricWidth ==
    /\ "get_fabric_width" \notin DOMAIN results
    /\ "calculate_and_draw" \notin DOMAIN results
    /\ results' = ("get_fabric_width" :>
                      [ret |-> get_fabric_width(user_measurements, p_measurements)])
                  @@ results
    /\ UNCHANGED <<user_measurements, p_measurements, csv_file>>
    /\ UNCHANGED batchVars

CalculateAndDraw ==
    /\ results = EmptyDict
    /\ LET run == calculate_and_draw(user_measurements, csv_file) IN
         /\ results' = ("calculate_and_draw" :> [ret |-> [exc |-> run.exc, trail |-> run.trail]])
         /\ p_measurements' = run.pm
         /\ csv_file' = run.file
    /\ UNCHANGED user_measurements
    /\ UNCHANGED batchVars

Next == AssignTemplateSize \/ GetFabricWidth \/ CalculateAndDraw

Spec == Init /\ [][Next]_vars

(***************************************************************************)
(* SpecBolt: one width, the three copies of calculate_ideal_bolt_width and *)
(* get_fabric_width on a record whose raw width is that width              *)
(***************************************************************************)
\* widths up to MaxSteps grid steps above 125 cm, and around zero
MaxSteps == 90

Widths == {Cm(125) + Eighth(k) : k \in 0 .. MaxSteps}
          \cup {Eighth(k) : k \in (0 - MaxSteps) .. MaxSteps}

InitBolt ==
    /\ \E w \in Widths :
         /\ dims = [width |-> w]
         /\ user_measurements =
              MainRecord(Cm(70), 1, w - Cm(31), w - Cm(31), Cm(0), 0, Cm(150))
    /\ p_measurements = FixedParams(user_measurements)
    /\ results = EmptyDict
    /\ csv_file = NoFile
    /\ workshop_data = <<>>
    /\ scan_data = <<>>
    /\ analyses = <<>>
    /\ outcome = "idle"
    /\ writers = <<>>

Record(name, value) ==
    /\ name \notin DOMAIN results
    /\ results' = (name :> value) @@ results
    /\ UNCHANGED <<user_measurements, p_measurements, csv_file>>
    /\ UNCHANGED batchVars

PsUtilsIdealBoltWidth ==
    /\ "width" \in DOMAIN dims
    /\ Record("ps_utils", calculate_ideal_bolt_width(dims["width"]))

MendeleyIdealBoltWidth ==
    /\ "width" \in DOMAIN dims
    /\ Record("mendeley", mendeley_calculate_ideal_bolt_width(dims["width"]))

MyScanIdealBoltWidth ==
    /\ "width" \in DOMAIN dims
    /\ Record("my_scan", myscan_calculate_ideal_bolt_width(dims["width"]))

FabricWidthOfRecord ==
    /\ "width" \in DOMAIN dims
    /\ Record("get_fabric_width",
           get_fabric_width(user_measurements, p_measurements).val)

NextBolt ==
    \/ PsUtilsIdealBoltWidth
    \/ MendeleyIdealBoltWidth
    \/ MyScanIdealBoltWidth
    \/ FabricWidthOfRecord

SpecBolt == InitBolt /\ [][NextBolt]_vars

(***************************************************************************)
(* SpecEff: the efficiency evaluator.  One run of one of:                  *)
(* compute_efficiency on a pattern and a bolt; the workshop analysis       *)
(* (analyze_data, then ps_utils.add_pocket) on a file of rows; the         *)
(* Mendeley analysis (analyze_data, then add_pocket) on a file of scans    *)
(***************************************************************************)
\* the longest input file
MaxRows == 2

PatternWidths ==
    {0 - Cm(1), Cm(0), Cm(140), Cm(152), Cm(155)}
    \cup Around(Cm(139)) \cup Around(Cm(150))

PatternHeights == {Cm(0), Cm(90), Cm(100), Cm(160)} \cup Around(Cm(150))

EffBolts == {Cm(0), Cm(150)}

\* a row of ZWSworkshopData.csv: what update_db wrote for a participant
\* (the columns analyze_data reads), completed with the finished-garment
\* columns
WorkshopRow(id, pw, ph, bolt, finished) ==
    [person_id |-> id, pattern_width |-> pw, pattern_height |-> ph,
     bolt_width |-> bolt, garment_finished |-> finished,
     bust_circ |-> Cm(100), waist_circ |-> Cm(80), hip_circ |-> Cm(95),
     arm_circ |-> Cm(30), neck_circ |-> Cm(38), shoulder_width |-> Cm(42),
     FG_bust_circ |-> Cm(130), FG_waist_circ |-> Cm(130), FG_hip_circ |-> Cm(130),
     FG_arm_circ |-> Cm(40), FG_neckline |-> Cm(60), FG_shoulder_width |-> Cm(50),
     likert_fit_bust |-> 4, likert_comfort_bust |-> 5,
     likert_fit_waist |-> 4, likert_comfort_waist |-> 5,
     likert_fit_hips |-> 3, likert_comfort_hips |-> 4,
     likert_fit_arms |-> 2, likert_comfort_arms |-> 3,
     likert_fit_neck |-> 4, likert_comfort_neck |-> 4,
     likert_fit_shoulders |-> 5, likert_comfort_shoulders |-> 5]

\* every one-row file, and the longer files over a few rows: one that fits,
\* one that does not, one of height zero
WorkshopFiles ==
    {<<WorkshopRow(1, pw, ph, bolt, fin)>> :
        pw \in PatternWidths, ph \in PatternHeights, bolt \in EffBolts,
        fin \in Flags}
    \cup UNION {
        [1 .. n -> {WorkshopRow(id, d[1], d[2], Cm(150), 0) :
                      id \in 1 .. MaxRows,
                      d \in {<<Cm(140), Cm(100)>>, <<Cm(152), Cm(160)>>,
                             <<Cm(139), Cm(0)>>}}] : n \in 2 .. MaxRows}

OtherCircColumns ==
    {"Abdomen Circum Tape Measure", "Axilla Chest Circumference Tape Measure",
     "Hip Circum Tape Measure", "Seat Circum Tape Measure",
     "Stomach Max Circum Tape Measure", "Waist Circum Tape Measure"}

\* a row of mendeleyScansData.csv: the columns analyze_data and
\* generate_plots read
ScanRow(id, chest, others, back) ==
    ("Scan Code" :> id)
    @@ ("Chest / Bust Circum Tape Measure" :> chest)
    @@ others
    @@ ("Half Back Center Tape Measure" :> back)
    @@ ("Waist Height" :> Cm(105))
    @@ ("Crotch Height" :> HalfCm(155))
    @@ ("Height cm" :> Cm(170))

ChestCircs == Around(Cm(108)) \cup {Cm(109), Cm(124)} \cup Around(Cm(119))

BackLengths == Around(Cm(45))

AllLow == [c \in OtherCircColumns |-> Cm(90)]

ScanFiles ==
    {<<ScanRow(1, chest, others, back)>> :
        chest \in ChestCircs, others \in [OtherCircColumns -> {Cm(90), Cm(121)}],
        back \in BackLengths}
    \cup UNION {
        [1 .. n -> {ScanRow(id, chest, AllLow, Cm(45)) :
                      id \in 1 .. MaxRows, chest \in {Cm(108), Cm(124)}}] :
        n \in 2 .. MaxRows}

Stage(prog, stage, exc) == [prog |-> prog, stage |-> stage, exc |-> exc]

InitCompute ==
    /\ \E pw \in PatternWidths, ph \in PatternHeights, bolt \in EffBolts :
         /\ dims = [pattern_width |-> pw, pattern_height |-> ph, bolt_width |-> bolt]
         /\ user_measurements =
              MainRecord(ph - HalfCm(55), 0, Cm(100), Cm(80), Cm(95), 1, bolt)
         /\ p_measurements =
              [pattern_width |-> pw, pattern_height |-> ph]
              @@ FixedParams(user_measurements)
    /\ workshop_data = <<>>
    /\ scan_data = <<>>
    /\ outcome = Stage("compute", "start", "none")

InitWorkshop ==
    /\ workshop_data \in WorkshopFiles
    /\ scan_data = <<>>
    /\ dims = EmptyDict
    /\ user_measurements = EmptyDict
    /\ p_measurements = EmptyDict
    /\ outcome = Stage("workshop", "read", "none")

InitMendeley ==
    /\ scan_data \in ScanFiles
    /\ workshop_data = <<>>
    /\ dims = EmptyDict
    /\ user_measurements = EmptyDict
    /\ p_measurements = EmptyDict
    /\ outcome = Stage("mendeley", "read", "none")

InitEff ==
    /\ InitCompute \/ InitWorkshop \/ InitMendeley
    /\ results = EmptyDict
    /\ csv_file = NoFile
    /\ analyses = <<>>
    /\ writers = <<>>

ComputeEfficiency ==
    /\ outcome = Stage("compute", "start", "none")
    /\ LET ce == compute_efficiency(user_measurements, p_measurements) IN
         /\ p_measurements' = ce.pm
         /\ outcome' = Stage("compute", IF ce.exc = "none" THEN "done" ELSE "raised",
                             ce.exc)
    /\ UNCHANGED <<user_measurements, results, csv_file, workshop_data, scan_data,
                   dims, analyses, writers>>

\* a call made by a main: its list on a normal return, the exception otherwise
Call(prog, from, to, call) ==
    /\ outcome = Stage(prog, from, "none")
    /\ analyses' = IF call.exc = "none" THEN call.val ELSE analyses
    /\ outcome' = Stage(prog, IF call.exc = "none" THEN to ELSE "raised", call.exc)
    /\ UNCHANGED <<workshop_data, scan_data, dims, writers>>
    /\ UNCHANGED pipeVars

WorkshopAnalyzeData ==
    /\ outcome.prog = "workshop"
    /\ Call("workshop", "read", "analyzed", workshop_analyze_data(workshop_data))

WorkshopAddPocket ==
    /\ outcome.prog = "workshop"
    /\ Call("workshop", "analyzed", "pocketed", add_pocket(analyses))

MendeleyAnalyzeData ==
    /\ outcome.prog = "mendeley"
    /\ Call("mendeley", "read", "analyzed", mendeley_analyze_data(scan_data))

MendeleyAddPocket ==
    /\ outcome.prog = "mendeley"
    /\ Call("mendeley", "analyzed", "pocketed", Ok(mendeley_add_pocket(analyses)))

\* main, line 323
MendeleyGeneratePlots ==
    /\ outcome = Stage("mendeley", "pocketed", "none")
    /\ results' = ("generate_plots" :> generate_plots(analyses, scan_data)) @@ results
    /\ outcome' = Stage("mendeley", "plotted", "none")
    /\ UNCHANGED <<user_measurements, p_measurements, csv_file, workshop_data,
                   scan_data, dims, analyses, writers>>

\* main, line 324
MendeleyGenerateBarGraphs ==
    /\ outcome = Stage("mendeley", "plotted", "none")
    /\ results' = ("generate_bar_graphs" :> generate_bar_graphs(analyses)) @@ results
    /\ outcome' = Stage("mendeley", "graphed", "none")
    /\ UNCHANGED <<user_measurements, p_measurements, csv_file, workshop_data,
                   scan_data, dims, analyses, writers>>

NextEff ==
    \/ ComputeEfficiency
    \/ WorkshopAnalyzeData
    \/ WorkshopAddPocket
    \/ MendeleyAnalyzeData
    \/ MendeleyAddPocket
    \/ MendeleyGeneratePlots
    \/ MendeleyGenerateBarGraphs

SpecEff == InitEff /\ [][NextEff]_vars

(***************************************************************************)
(* SpecGeom: the pattern geometry builder.  One parameter record, as        *)
(* calculate_and_draw hands it over (lines 446-460); draw_layered_pattern_dxf,*)
(* draw_pdf_with_dimensions and update_db applied to it                     *)
(***************************************************************************)
GeomWidths ==
    {Cm(96), Cm(111), Cm(115), Cm(135), Cm(160), HalfCm(263), Cm(131) + Eighth(1)}

GeomHeights == {HalfCm(195), Cm(130)}

B5Widths == {Cm(12), Cm(14), Cm(16), Cm(12) + Eighth(5)}

\* (sleevehead_radius, sleevehead_depth) of the three template bands
SleeveHeads == {<<Cm(12), Cm(3)>>, <<Cm(14), HalfCm(7)>>, <<Cm(16), Cm(4)>>}

CollarWidths == {HalfCm(19), Cm(8)}

PatternParams(um) ==
    {[sleevehead_depth |-> sh[2], sleevehead_radius |-> sh[1], b5_width |-> bw,
      pattern_height |-> um["desired_shirt_length"] + Cm(25) + HalfCm(5),
      pattern_width |-> pw]
     @@ ("collar_width" :> cw) @@ FixedParams(um) :
        sh \in SleeveHeads, bw \in B5Widths, pw \in GeomWidths, cw \in CollarWidths}

InitGeom ==
    /\ \E ph \in GeomHeights :
         user_measurements =
            MainRecord(ph - HalfCm(55), 1, Cm(100), Cm(80), Cm(95), 1, Cm(150))
    /\ p_measurements \in PatternParams(user_measurements)
    /\ results = EmptyDict
    /\ csv_file = NoFile
    /\ BatchIdle

DrawLayeredPatternDxf ==
    /\ "draw_layered_pattern_dxf" \notin DOMAIN results
    /\ results' = ("draw_layered_pattern_dxf" :>
                      [msp |-> modelspace(p_measurements),
                       file_name |-> <<p_measurements["person_id"], "_pattern.dxf">>])
                  @@ results
    /\ p_measurements' = draw_layered_pattern_dxf(p_measurements)
    /\ UNCHANGED <<user_measurements, csv_file>>
    /\ UNCHANGED batchVars

\* a second call, on the record as the first call left it
DrawLayeredPatternDxfAgain ==
    /\ "draw_layered_pattern_dxf" \in DOMAIN results
    /\ "draw_layered_pattern_dxf_again" \notin DOMAIN results
    /\ results' = ("draw_layered_pattern_dxf_again" :>
                      [msp |-> modelspace(p_measurements),
                       file_name |-> <<p_measurements["person_id"], "_pattern.dxf">>])
                  @@ results
    /\ p_measurements' = draw_layered_pattern_dxf(p_measurements)
    /\ UNCHANGED <<user_measurements, csv_file>>
    /\ UNCHANGED batchVars

DrawPdfWithDimensions ==
    /\ "draw_pdf_with_dimensions" \notin DOMAIN results
    /\ results' = ("draw_pdf_with_dimensions" :>
                      [armhole_length |-> pdf_armhole_length(p_measurements),
                       patches |-> ax_patches(p_measurements),
                       lines |-> ax_lines(p_measurements)])
                  @@ results
    /\ UNCHANGED <<user_measurements, p_measurements, csv_file>>
    /\ UNCHANGED batchVars

\* calculate_and_draw writes the record out after the drawing (lines 462-468)
UpdateDb ==
    /\ "draw_layered_pattern_dxf" \in DOMAIN results
    /\ ~csv_file.exists
    /\ csv_file' = update_db(user_measurements, p_measurements, csv_file)
    /\ UNCHANGED <<user_measurements, p_measurements, results>>
    /\ UNCHANGED batchVars

NextGeom ==
    \/ DrawLayeredPatternDxf
    \/ DrawLayeredPatternDxfAgain
    \/ DrawPdfWithDimensions
    \/ UpdateDb

SpecGeom == InitGeom /\ [][NextGeom]_vars

(***************************************************************************)
(* SpecRace: several calculate_and_draw runs that have reached update_db,  *)
(* each taking the statements of update_db one at a time on the shared     *)
(* CSV file                                                                *)
(***************************************************************************)
MaxWriters == 3

PersonIds == <<"p1", "p2", "p3", "p4", "p5", "p6", "p7">>

\* a record of a caller that passes both hem keys
CompleteRecord(id, len, bust, waist) ==
    ("person_id" :> id) @@ ("shirt_below_hip" :> 0)
        @@ MainRecord(len, 1, bust, waist, Cm(95), 1, Cm(150))

\* the record calculate_and_draw hands to update_db (line 468)
ParamsAtUpdateDb(um) == calculate_and_draw(um, NoFile).pm

\* the CSV file as an earlier, finished run left it
EarlierFile ==
    LET um == CompleteRecord("p0", Cm(70), Cm(100), Cm(80))
    IN  update_db(um, ParamsAtUpdateDb(um), NoFile)

InitRace ==
    /\ user_measurements = EmptyDict
    /\ p_measurements = EmptyDict
    /\ results = EmptyDict
    /\ csv_file \in {NoFile, EarlierFile}
    /\ workshop_data = <<>>
    /\ scan_data = <<>>
    /\ dims = EmptyDict
    /\ analyses = <<>>
    /\ outcome = "idle"
    /\ writers = [w \in 1..MaxWriters |->
                    LET um == CompleteRecord(PersonIds[w], Cm(70), Cm(100), Cm(80))
                    IN  [pc |-> "exists", um |-> um, pm |-> ParamsAtUpdateDb(um),
                         file_exists |-> FALSE, buffer |-> <<>>]]

RaceIdle ==
    UNCHANGED <<user_measurements, p_measurements, results, workshop_data,
                scan_data, dims, analyses, outcome>>

\* line 399: file_exists = os.path.exists(file_name)
UpdateDbExists ==
    \E w \in DOMAIN writers :
    /\ writers[w].pc = "exists"
    /\ writers' = [writers EXCEPT ![w].pc = "open",
                                  ![w].file_exists = csv_file.exists]
    /\ UNCHANGED csv_file
    /\ RaceIdle

\* line 404: open(file_name, mode='a') creates the file when it is missing
UpdateDbOpen ==
    \E w \in DOMAIN writers :
    /\ writers[w].pc = "open"
    /\ csv_file' = [csv_file EXCEPT !.exists = TRUE]
    /\ writers' = [writers EXCEPT ![w].pc = "header"]
    /\ RaceIdle

\* lines 408-409: the header goes to this writer's buffer when its own
\* file_exists is false
UpdateDbWriteHeader ==
    \E w \in DOMAIN writers :
    /\ writers[w].pc = "header"
    /\ LET data_to_append == writers[w].pm @@ writers[w].um
           header == [kind |-> "header", fields |-> DOMAIN data_to_append,
                      data |-> EmptyDict]
       IN  writers' = [writers EXCEPT
                         ![w].pc = "row",
                         ![w].buffer = IF writers[w].file_exists THEN @
                                       ELSE Append(@, header)]
    /\ UNCHANGED csv_file
    /\ RaceIdle

\* line 412: writer.writerow(data_to_append)
UpdateDbWriteRow ==
    \E w \in DOMAIN writers :
    /\ writers[w].pc = "row"
    /\ LET data_to_append == writers[w].pm @@ writers[w].um
           row == [kind |-> "row", fields |-> DOMAIN data_to_append,
                   data |-> data_to_append]
       IN  writers' = [writers EXCEPT ![w].pc = "close",
                                      ![w].buffer = Append(@, row)]
    /\ UNCHANGED csv_file
    /\ RaceIdle

\* the end of the with block (line 404): the buffer is appended to the file
UpdateDbClose ==
    \E w \in DOMAIN writers :
    /\ writers[w].pc = "close"
    /\ csv_file' = [csv_file EXCEPT !.rows = @ \o writers[w].buffer]
    /\ writers' = [writers EXCEPT ![w].pc = "done", ![w].buffer = <<>>]
    /\ RaceIdle

NextRace ==
    \/ UpdateDbExists
    \/ UpdateDbOpen
    \/ UpdateDbWriteHeader
    \/ UpdateDbWriteRow
    \/ UpdateDbClose

SpecRace == InitRace /\ [][NextRace]_vars

(***************************************************************************)
(* SpecDb: calculate_and_draw called for one subject after another, each   *)
(* call run to its end before the next starts, on one CSV file             *)
(***************************************************************************)
MaxCalls == 5

\* subjects with positive measurements: a mid-size body, the same body with
\* a 20 cm shirt, a 60 cm body and a 130 cm body
DbSubjects ==
    {CompleteRecord("p1", Cm(70), Cm(100), Cm(80)),
     CompleteRecord("p2", Cm(20), Cm(100), Cm(80)),
     CompleteRecord("p3", Cm(70), Cm(60), Cm(60)),
     CompleteRecord("p4", HalfCm(205), Cm(130), Cm(110))}

InitDb ==
    /\ user_measurements = EmptyDict
    /\ p_measurements = EmptyDict
    /\ results = ("calls" :> <<>>)
    /\ csv_file = NoFile
    /\ BatchIdle

\* one run of calculate_and_draw (lines 438-468); the drawing is made from
\* the parameters set at lines 446-459, which no later step changes
CalculateAndDrawCall ==
    /\ Len(results["calls"]) < MaxCalls
    /\ \E um \in DbSubjects :
         LET run == calculate_and_draw(um, csv_file)
             drawn == \E i \in DOMAIN run.trail :
                         run.trail[i] = "draw_layered_pattern_dxf"
         IN  /\ user_measurements' = um
             /\ p_measurements' = run.pm
             /\ csv_file' = run.file
             /\ results' =
                  ("calls" :> Append(results["calls"],
                                     [um |-> um, exc |-> run.exc, trail |-> run.trail]))
                  @@ ("draw_layered_pattern_dxf" :>
                        [msp |-> IF drawn THEN modelspace(run.pm) ELSE <<>>,
                         file_name |-> <<um["person_id"], "_pattern.dxf">>])
    /\ UNCHANGED batchVars

NextDb == CalculateAndDrawCall

SpecDb == InitDb /\ [][NextDb]_vars

(***************************************************************************)
(* Claims                                                                  *)
(***************************************************************************)
Done(op) == op \in DOMAIN results

Ret(op) == results[op].ret

\* the greatest element of a non-empty set of integers
MaxOf(S) == CHOOSE x \in S : \A y \in S : y <= x

\* C1: whenever assign_template_size returns for one of its three parameters,
\* the value is the constant of the one band that holds largest_measurement:
\* below 95 cm gives 12 (b5_width, sleevehead_radius) and 3.0
\* (sleevehead_depth); 95 to 125 cm, both ends included, gives 14 and 3.5;
\* above 125 cm gives 16 and 4.0.
C1_TemplateBands ==
    (Done("assign_template_size") /\ Ret("assign_template_size").exc = "none"
        /\ results["assign_template_size"].param # "collar_width") =>
    LET r == Ret("assign_template_size")
        depth == results["assign_template_size"].param = "sleevehead_depth"
        band == IF r.largest < Cm(95) THEN 1
                ELSE IF r.largest <= Cm(125) THEN 2 ELSE 3
    IN  /\ band = 1 => r.val = (IF depth THEN Cm(3) ELSE Cm(12))
        /\ band = 2 => r.val = (IF depth THEN HalfCm(7) ELSE Cm(14))
        /\ band = 3 => r.val = (IF depth THEN Cm(4) ELSE Cm(16))

\* C1 witness: a record whose largest circumference is exactly 95 cm got the
\* ideal band's facing width 14.
C1_Witness ==
    /\ Done("assign_template_size")
    /\ Ret("assign_template_size").exc = "none"
    /\ results["assign_template_size"].param = "b5_width"
    /\ Ret("assign_template_size").largest = Cm(95)
    /\ Ret("assign_template_size").val = Cm(14)

\* the largest circumference the hem flag of main's record asks for
ExpectedLargest(um) ==
    IF um["shirt_above_hip"] = 1
    THEN MaxOf({um["bust_circ"], um["waist_circ"]})
    ELSE MaxOf({um["bust_circ"], um["waist_circ"], um["hip_circ"]})

\* C2 (as claimed): for a record as main builds it, once assign_template_size
\* and get_fabric_width have both run on it, both have computed the same
\* largest_measurement: max(bust, waist) when the hem is above the hip,
\* max(bust, waist, hip) otherwise.
C2_SameLargest ==
    (/\ "shirt_below_hip" \notin DOMAIN user_measurements
     /\ Done("assign_template_size")
     /\ Done("get_fabric_width")) =>
    /\ Ret("assign_template_size").exc = "none"
    /\ Ret("get_fabric_width").exc = "none"
    /\ Ret("assign_template_size").largest = ExpectedLargest(user_measurements)
    /\ Ret("get_fabric_width").largest = ExpectedLargest(user_measurements)

\* C3: on a record that carries the hem flag, get_fabric_width returns
\* largest + ease + sew_tolerance itself when actual_measure is 1, and
\* otherwise the least multiple of 5 cm that is not below it.
C3_FabricWidth ==
    (Done("get_fabric_width") /\ "shirt_above_hip" \in DOMAIN user_measurements) =>
    LET r == Ret("get_fabric_width")
        raw == ExpectedLargest(user_measurements) + p_measurements["ease"]
               + p_measurements["sew_tolerance"]
    IN  /\ r.exc = "none"
        /\ user_measurements["actual_measure"] = 1 => r.val = raw
        /\ user_measurements["actual_measure"] # 1 =>
             /\ r.val % Cm(5) = 0
             /\ r.val >= raw
             /\ r.val - Cm(5) < raw

\* C3 witness: bust 100, waist 80, hip 95, hem above the hip, bolt rounding:
\* the width returned is 135.
C3_Witness ==
    /\ Done("get_fabric_width")
    /\ user_measurements["bust_circ"] = Cm(100)
    /\ user_measurements["waist_circ"] = Cm(80)
    /\ user_measurements["hip_circ"] = Cm(95)
    /\ "shirt_above_hip" \in DOMAIN user_measurements
    /\ user_measurements["shirt_above_hip"] = 1
    /\ user_measurements["actual_measure"] = 0
    /\ Ret("get_fabric_width").val = Cm(135)

BoltOps == {"ps_utils", "mendeley", "my_scan", "get_fabric_width"}

\* C4: every value one of the three copies of calculate_ideal_bolt_width, or
\* get_fabric_width's own rounding, returns for a width w is a multiple of
\* 5 cm with value - 5 < w <= value, is w itself when w is a multiple of 5 cm,
\* and is the same for all four.
C4_CeilingToFive ==
    LET w == dims["width"] IN
    \A op \in BoltOps \cap DOMAIN results :
        /\ results[op] % Cm(5) = 0
        /\ results[op] - Cm(5) < w
        /\ w <= results[op]
        /\ w % Cm(5) = 0 => results[op] = w
        /\ \A other \in BoltOps \cap DOMAIN results : results[other] = results[op]

\* C4 witness: all four have rounded the width 131 cm, to 135 cm.
C4_Witness ==
    /\ DOMAIN results = BoltOps
    /\ dims["width"] = Cm(131)
    /\ \A op \in BoltOps : results[op] = Cm(135)

\* compute_efficiency has run on the pattern and bolt in dims, all positive
ComputedValid ==
    /\ outcome.prog = "compute"
    /\ outcome.stage # "start"
    /\ dims["pattern_width"] > 0
    /\ dims["pattern_height"] > 0
    /\ dims["bolt_width"] > 0

\* C5 (as claimed): whenever pattern_width <= bolt_width, equality included,
\* compute_efficiency records the primary orientation, Eff_Option 1.
C5_PrimaryWhenItFits ==
    (ComputedValid /\ dims["pattern_width"] <= dims["bolt_width"]) =>
    p_measurements["Eff_Option"] = 1

\* C6 (as claimed): whenever pattern_width > bolt_width and pattern_height <=
\* bolt_width, compute_efficiency records the rotated orientation,
\* Eff_Option 2, with Efficiency = pattern_height / bolt_width.
C6_RotatedWhenOnlyItFits ==
    (/\ ComputedValid
     /\ dims["pattern_width"] > dims["bolt_width"]
     /\ dims["pattern_height"] <= dims["bolt_width"]) =>
    /\ p_measurements["Eff_Option"] = 2
    /\ p_measurements["Efficiency"] = Frac(dims["pattern_height"], dims["bolt_width"])

\* C7 (as claimed): compute_efficiency records the no-fit sentinel
\* (Eff_Option 3, Efficiency -1) exactly when pattern_width > bolt_width and
\* pattern_height > bolt_width.
C7_SentinelIffNeitherFits ==
    ComputedValid =>
    /\ outcome.exc = "none"
    /\ (p_measurements["Eff_Option"] = 3 /\ p_measurements["Efficiency"] = MinusOne)
       <=> (/\ dims["pattern_width"] > dims["bolt_width"]
            /\ dims["pattern_height"] > dims["bolt_width"])

\* 0 < q <= 1
InUnitInterval(q) == q.num > 0 /\ q.num <= q.den

IsOne(q) == q.num = q.den

\* C8 (as claimed): for positive dimensions with pattern_width <= bolt_width
\* or pattern_height <= bolt_width, the Efficiency compute_efficiency records
\* and the efficiency_used the workshop analyze_data computes are in (0, 1],
\* and are 1 exactly when the cut-loss width is 0.
C8_EfficiencyBounds ==
    /\ (/\ ComputedValid
        /\ \/ dims["pattern_width"] <= dims["bolt_width"]
           \/ dims["pattern_height"] <= dims["bolt_width"]) =>
       LET cut_loss_width ==
               IF dims["pattern_width"] <= dims["bolt_width"]
               THEN dims["bolt_width"] - dims["pattern_width"]
               ELSE dims["bolt_width"] - dims["pattern_height"]
       IN  /\ InUnitInterval(p_measurements["Efficiency"])
           /\ IsOne(p_measurements["Efficiency"]) <=> cut_loss_width = 0
    /\ outcome.prog = "workshop" =>
       \A i \in 1 .. Len(analyses) :
           (/\ analyses[i]["pattern_width"] > 0
            /\ analyses[i]["pattern_height"] > 0
            /\ analyses[i]["bolt_width_used"] > 0
            /\ \/ analyses[i]["pattern_width"] <= analyses[i]["bolt_width_used"]
               \/ analyses[i]["pattern_height"] <= analyses[i]["bolt_width_used"]) =>
           /\ InUnitInterval(analyses[i]["efficiency_used"])
           /\ IsOne(analyses[i]["efficiency_used"])
              <=> analyses[i]["cut_loss_width_used"] = 0

AnalysisRun == outcome.prog \in {"workshop", "mendeley"}

\* C9: every result of analyze_data (workshop and Mendeley) whose
\* pattern_width is at most its bolt_width_used has cut_loss_width_used =
\* bolt_width_used - pattern_width, cut_loss_area_used = cut_loss_width_used *
\* pattern_height and efficiency_used = pattern_width / bolt_width_used; the
\* 140 x 100 pattern on the 150 bolt gets no pocket from add_pocket.
C9_PrimaryOrientationFields ==
    AnalysisRun =>
    \A i \in 1 .. Len(analyses) :
        LET r == analyses[i] IN
        r["pattern_width"] <= r["bolt_width_used"] =>
        /\ r["cut_loss_width_used"] = r["bolt_width_used"] - r["pattern_width"]
        /\ r["cut_loss_area_used"] = r["cut_loss_width_used"] * r["pattern_height"]
        /\ r["efficiency_used"] = Frac(r["pattern_width"], r["bolt_width_used"])
        /\ (/\ outcome.stage = "pocketed"
            /\ r["pattern_width"] = Cm(140)
            /\ r["bolt_width_used"] = Cm(150)) =>
           r["pocket_possible"] = (IF outcome.prog = "workshop" THEN FALSE ELSE "No")

\* C9 witness: the workshop analysis of the 140 x 100 pattern on the 150 bolt:
\* cut-loss width 10, area 1000, efficiency 14/15, no pocket.
C9_Witness ==
    /\ outcome = Stage("workshop", "pocketed", "none")
    /\ Len(analyses) = 1
    /\ analyses[1]["pattern_width"] = Cm(140)
    /\ analyses[1]["pattern_height"] = Cm(100)
    /\ analyses[1]["bolt_width_used"] = Cm(150)
    /\ analyses[1]["cut_loss_width_used"] = Cm(10)
    /\ analyses[1]["cut_loss_area_used"] = 1000 * Cm(1) * Cm(1)
    /\ analyses[1]["efficiency_used"] = [num |-> 14, den |-> 15]
    /\ analyses[1]["pocket_possible"] = FALSE

\* C10: every result of the workshop analysis (assign_ideal_values) and of the
\* Mendeley analyze_data with a positive pattern_width has bolt_width_ideal >=
\* pattern_width, 0 <= cut_loss_width_ideal < 5, cut_loss_area_ideal =
\* cut_loss_width_ideal * pattern_height, 0 < efficiency_ideal <= 1, and none
\* of the ideal fields is the -1 sentinel.
C10_IdealAlwaysFits ==
    AnalysisRun =>
    \A i \in 1 .. Len(analyses) :
        LET r == analyses[i] IN
        r["pattern_width"] > 0 =>
        /\ r["bolt_width_ideal"] >= r["pattern_width"]
        /\ r["cut_loss_width_ideal"] >= 0
        /\ r["cut_loss_width_ideal"] < Cm(5)
        /\ r["cut_loss_width_ideal"] = r["bolt_width_ideal"] - r["pattern_width"]
        /\ r["cut_loss_area_ideal"] = r["cut_loss_width_ideal"] * r["pattern_height"]
        /\ InUnitInterval(r["efficiency_ideal"])
        /\ r["cut_loss_width_ideal"] # SentinelWidth
        /\ r["cut_loss_area_ideal"] # SentinelArea
        /\ r["efficiency_ideal"] # MinusOne

\* C10 witness: a Mendeley result whose used fields are the sentinel (the
\* pattern is wider than the 150 bolt) and whose ideal fields are computed.
C10_Witness ==
    /\ outcome.prog = "mendeley"
    /\ outcome.stage = "analyzed"
    /\ Len(analyses) = 1
    /\ analyses[1]["pattern_width"] = HalfCm(301)
    /\ analyses[1]["efficiency_used"] = MinusOne
    /\ analyses[1]["cut_loss_width_used"] = SentinelWidth
    /\ analyses[1]["bolt_width_ideal"] = Cm(155)
    /\ analyses[1]["cut_loss_width_ideal"] = HalfCm(9)
    /\ analyses[1]["efficiency_ideal"] = [num |-> 301, den |-> 310]

C12_ZeroDivisionGuarded == outcome.exc # "ZeroDivisionError"

\* some dimension of the pattern and bolt compute_efficiency ran on is <= 0
ComputedInvalid ==
    /\ outcome.prog = "compute"
    /\ outcome.stage # "start"
    /\ \/ dims["pattern_width"] <= 0
       \/ dims["pattern_height"] <= 0
       \/ dims["bolt_width"] <= 0

\* some row of the workshop file analyze_data ran on has a dimension <= 0
AnalyzedInvalid ==
    /\ outcome.prog = "workshop"
    /\ outcome.stage # "read"
    /\ \E i \in 1 .. Len(workshop_data) :
         \/ workshop_data[i]["pattern_width"] <= 0
         \/ workshop_data[i]["pattern_height"] <= 0
         \/ workshop_data[i]["bolt_width"] <= 0

\* C13 (as claimed): compute_efficiency and analyze_data called with
\* bolt_width <= 0, pattern_width <= 0 or pattern_height <= 0 end in the
\* InvalidDimension error.
C13_InvalidDimensionRejected ==
    (ComputedInvalid \/ AnalyzedInvalid) => outcome.exc = "InvalidDimension"

\* a circumference get_fabric_width takes the maximum of is zero or negative
RequiredCircNotPositive(um) ==
    \/ um["bust_circ"] <= 0
    \/ um["waist_circ"] <= 0
    \/ ("shirt_above_hip" \in DOMAIN um /\ um["shirt_above_hip"] # 1
        /\ um["hip_circ"] <= 0)

\* C14 (as claimed): get_fabric_width, and calculate_and_draw that feeds it,
\* end in the InvalidMeasurement error on a record in which a required body
\* circumference is zero or negative.
C14_InvalidMeasurementRejected ==
    RequiredCircNotPositive(user_measurements) =>
    /\ Done("get_fabric_width") => Ret("get_fabric_width").exc = "InvalidMeasurement"
    /\ Done("calculate_and_draw") => Ret("calculate_and_draw").exc = "InvalidMeasurement"

\* C15 (as claimed): once analyze_data has run on a file, every row whose own
\* processing succeeds has its result in the list, whatever happened to the
\* other rows, and the run goes on to add_pocket.
C15_BatchIsolation ==
    /\ (outcome.prog = "workshop" /\ outcome.stage # "read") =>
       \A i \in 1 .. Len(workshop_data) :
           workshop_result(workshop_data[i]).exc = "none" =>
           \E j \in 1 .. Len(analyses) :
               /\ analyses[j]["person_id"] = workshop_data[i]["person_id"]
               /\ analyses[j]["pattern_width"] = workshop_data[i]["pattern_width"]
               /\ analyses[j]["pattern_height"] = workshop_data[i]["pattern_height"]
    /\ (outcome.prog = "mendeley" /\ outcome.stage # "read") =>
       \A i \in 1 .. Len(scan_data) :
           mendeley_result(scan_data[i]).exc = "none" =>
           \E j \in 1 .. Len(analyses) :
               /\ analyses[j]["person_id"] = scan_data[i]["Scan Code"]
               /\ analyses[j]["pattern_width"] = calculate_pattern_width(scan_data[i])

\* the entities draw_layered_pattern_dxf added, and those of one layer
Drawn == results["draw_layered_pattern_dxf"].msp

InLayer(name) == SelectSeq(Drawn, LAMBDA e : e.layer = name)

OfType(name, type) ==
    SelectSeq(Drawn, LAMBDA e : e.layer = name /\ e.dxftype = type)

PW == p_measurements["pattern_width"]

PH == p_measurements["pattern_height"]

CollarLineY == PH - p_measurements["collar_length"]

\* C16: draw_layered_pattern_dxf emits exactly four entities in the Collar
\* layer, each a closed rectangle collar_width wide and collar_length high,
\* one at each x in {0, pattern_width/2 - collar_width, pattern_width/2,
\* pattern_width - collar_width}, its lower side on y = pattern_height -
\* collar_length and its top side on y = pattern_height.
C16_CollarRectangles ==
    Done("draw_layered_pattern_dxf") =>
    LET cw == p_measurements["collar_width"]
        cl == p_measurements["collar_length"]
        xs == {0, Half(PW) - cw, Half(PW), PW - cw}
        corners(x) == {<<x, CollarLineY>>, <<x + cw, CollarLineY>>,
                       <<x + cw, PH>>, <<x, PH>>}
        collars == InLayer("Collar")
    IN  /\ Len(collars) = 4
        /\ 2 * Half(PW) = PW
        /\ \A i \in 1 .. Len(collars) :
              /\ collars[i].dxftype = "LWPOLYLINE"
              /\ collars[i].closed
              /\ collars[i].points[1] = collars[i].points[Len(collars[i].points)]
              /\ \E x \in xs :
                    /\ collars[i].points[1] = <<x, CollarLineY>>
                    /\ {collars[i].points[k] : k \in 1 .. Len(collars[i].points)}
                         = corners(x)
        /\ \A x \in xs : \E i \in 1 .. Len(collars) :
              collars[i].points[1] = <<x, CollarLineY>>

\* C16 witness: the 135 x 97.5 pattern with the 9.5 x 25 collar drawn; the
\* right-most rectangle starts at (125.5, 72.5) and reaches (135, 97.5).
C16_Witness ==
    /\ Done("draw_layered_pattern_dxf")
    /\ PW = Cm(135)
    /\ PH = HalfCm(195)
    /\ InLayer("Collar")[4].points[1] = <<HalfCm(251), HalfCm(145)>>
    /\ InLayer("Collar")[4].points[3] = <<Cm(135), HalfCm(195)>>

\* the point of an arc at one of the four axis directions
ArcPoint(a, angle) ==
    CASE angle % 360 = 0 -> <<a.center[1] + a.radius, a.center[2]>>
      [] angle % 360 = 90 -> <<a.center[1], a.center[2] + a.radius>>
      [] angle % 360 = 180 -> <<a.center[1] - a.radius, a.center[2]>>
      [] angle % 360 = 270 -> <<a.center[1], a.center[2] - a.radius>>

Horizontal(l) == l.start[2] = l.end[2] /\ l.start[1] # l.end[1]

Vertical(l) == l.start[1] = l.end[1] /\ l.start[2] # l.end[2]

\* the end of a horizontal line that is not on a side edge of the pattern
InnerEnd(l) == IF l.start[1] \in {0, PW} THEN l.end ELSE l.start

LowerEnd(l) == IF l.start[2] < l.end[2] THEN l.start ELSE l.end

\* C17: the B5 layer has two arcs, of radius b5_width / 2, from 270 to 360
\* degrees on the left and from 180 to 270 degrees on the right; the two end
\* points of each arc are the inner end of a horizontal B5 line and the lower
\* end of a vertical B5 line, and the centre lies one radius from the line
\* through each, so the arc is tangent to both.
C17_FacingArcTangent ==
    Done("draw_layered_pattern_dxf") =>
    LET arcs == OfType("B5", "ARC")
        lines == OfType("B5", "LINE")
    IN  /\ Len(arcs) = 2
        /\ \A i \in 1 .. Len(arcs) :
              LET a == arcs[i] IN
              /\ 2 * a.radius = p_measurements["b5_width"]
              /\ <<a.start_angle, a.end_angle>>
                   = (IF 2 * a.center[1] < PW THEN <<270, 360>> ELSE <<180, 270>>)
              /\ \E h \in 1 .. Len(lines), v \in 1 .. Len(lines) :
                    /\ Horizontal(lines[h])
                    /\ Vertical(lines[v])
                    /\ ArcPoint(a, 270) = InnerEnd(lines[h])
                    /\ ArcPoint(a, IF 2 * a.center[1] < PW THEN 360 ELSE 180)
                         = LowerEnd(lines[v])
                    /\ Abs(a.center[2] - lines[h].start[2]) = a.radius
                    /\ Abs(a.center[1] - lines[v].start[1]) = a.radius
        /\ \E i \in 1 .. Len(arcs) : 2 * arcs[i].center[1] < PW
        /\ \E i \in 1 .. Len(arcs) : 2 * arcs[i].center[1] > PW

\* C17 witness: facing width 12.625 on the 135 x 97.5 pattern: the left arc
\* has radius 6.3125 and centre (6.3125, 66.1875).
C17_Witness ==
    /\ Done("draw_layered_pattern_dxf")
    /\ PW = Cm(135)
    /\ PH = HalfCm(195)
    /\ p_measurements["b5_width"] = Cm(12) + Eighth(5)
    /\ OfType("B5", "ARC")[1].radius = 202
    /\ OfType("B5", "ARC")[1].center = <<202, HalfCm(145) - 202>>

\* C18: the Sleeve layer has two curves, given by (center_x - sleevehead_radius,
\* collar_line_y), (center_x, collar_line_y - sleevehead_depth), (center_x +
\* sleevehead_radius, collar_line_y) for center_x = pattern_width / 4 and
\* 3 * pattern_width / 4; the four lines of the layer that lie on the collar
\* line each join an end point of a curve to the lower corner, on the side
\* facing the curve, of the collar rectangle next to it.
C18_SleeveheadCurves ==
    Done("draw_layered_pattern_dxf") =>
    LET sr == p_measurements["sleevehead_radius"]
        sd == p_measurements["sleevehead_depth"]
        cw == p_measurements["collar_width"]
        y == CollarLineY
        splines == OfType("Sleeve", "SPLINE")
        lines == OfType("Sleeve", "LINE")
        collars == InLayer("Collar")
        centers == <<Quarter(PW), ThreeQuarters(PW)>>
        onLine == {i \in 1 .. Len(lines) : lines[i].start[2] = y /\ lines[i].end[2] = y}
        ends(i) == {lines[i].start, lines[i].end}
        \* the corner at x is a corner of a collar rectangle, which lies on
        \* the far side of x from the curve centred at c
        facing(x, c) ==
            \E k \in 1 .. Len(collars) :
                /\ <<x, y>> \in {collars[k].points[j] : j \in 1 .. Len(collars[k].points)}
                /\ \A j \in 1 .. Len(collars[k].points) :
                      IF x < c THEN collars[k].points[j][1] <= x
                               ELSE collars[k].points[j][1] >= x
    IN  /\ 4 * Quarter(PW) = PW
        /\ 4 * ThreeQuarters(PW) = 3 * PW
        /\ Len(splines) = 2
        /\ \A n \in 1 .. 2 :
              splines[n].fit_points
                = << <<centers[n] - sr, y>>, <<centers[n], y - sd>>,
                     <<centers[n] + sr, y>> >>
        /\ Cardinality(onLine) = 4
        /\ \A n \in 1 .. 2 :
              /\ \E i \in onLine :
                    /\ ends(i) = {<<centers[n] - sr, y>>,
                                  <<IF n = 1 THEN cw ELSE Half(PW) + cw, y>>}
                    /\ facing(IF n = 1 THEN cw ELSE Half(PW) + cw, centers[n])
              /\ \E i \in onLine :
                    /\ ends(i) = {<<centers[n] + sr, y>>,
                                  <<IF n = 1 THEN Half(PW) - cw ELSE PW - cw, y>>}
                    /\ facing(IF n = 1 THEN Half(PW) - cw ELSE PW - cw, centers[n])

\* C18 witness: radius 14 and depth 3.5 on the 131.125 x 130 pattern: the
\* right curve runs (84.34375, 105), (98.34375, 101.5), (112.34375, 105).
C18_Witness ==
    /\ Done("draw_layered_pattern_dxf")
    /\ PW = Cm(131) + Eighth(1)
    /\ PH = Cm(130)
    /\ p_measurements["sleevehead_radius"] = Cm(14)
    /\ OfType("Sleeve", "SPLINE")[2].fit_points
         = << <<3147 - Cm(14), Cm(105)>>, <<3147, HalfCm(203)>>,
              <<3147 + Cm(14), Cm(105)>> >>

\* C19: the Bodice layer has a vertical line at x = pattern_width / 4 and one
\* at x = 3 * pattern_width / 4, each from the middle point of the sleevehead
\* curve at that x, (x, collar_line_y - sleevehead_depth), down by
\* armhole_length = 0.5 * (0.5 * pattern_width - 2 * collar_width); the record
\* carries that armhole_length after the drawing, update_db writes it out,
\* and draw_pdf_with_dimensions computes the same value.
C19_ArmholeDrop ==
    Done("draw_layered_pattern_dxf") =>
    LET sd == p_measurements["sleevehead_depth"]
        al == CHOOSE n \in (0 - PW) .. PW : 4 * n = PW - 4 * p_measurements["collar_width"]
        lines == OfType("Bodice", "LINE")
        splines == OfType("Sleeve", "SPLINE")
        drops == {i \in 1 .. Len(lines) :
                     Vertical(lines[i])
                     /\ lines[i].start[2] = CollarLineY - sd}
    IN  /\ al >= 0
        /\ Cardinality(drops) = 2
        /\ \A n \in 1 .. 2 :
              \E i \in drops :
                 /\ lines[i].start = splines[n].fit_points[2]
                 /\ 4 * lines[i].start[1] = (IF n = 1 THEN PW ELSE 3 * PW)
                 /\ lines[i].end = <<lines[i].start[1], lines[i].start[2] - al>>
        /\ p_measurements["armhole_length"] = al
        /\ csv_file.exists =>
              csv_file.rows[Len(csv_file.rows)].data["armhole_length"] = al
        /\ Done("draw_pdf_with_dimensions") =>
              results["draw_pdf_with_dimensions"].armhole_length = al

\* C19 witness: the 135 wide pattern with the 9.5 collar, drawn and written
\* out: armhole_length 24.25 in the line, in the record and in the CSV row.
C19_Witness ==
    /\ Done("draw_layered_pattern_dxf")
    /\ Done("draw_pdf_with_dimensions")
    /\ csv_file.exists
    /\ PW = Cm(135)
    /\ PH = HalfCm(195)
    /\ p_measurements["collar_width"] = HalfCm(19)
    /\ p_measurements["sleevehead_depth"] = Cm(3)
    /\ p_measurements["armhole_length"] = Cm(24) + Eighth(2)
    /\ csv_file.rows[2].data["armhole_length"] = Cm(24) + Eighth(2)
    /\ \E i \in 1 .. Len(Drawn) :
          /\ Drawn[i].layer = "Bodice"
          /\ Drawn[i].dxftype = "LINE"
          /\ Drawn[i].start = <<Cm(135) \div 4, HalfCm(139)>>
          /\ Drawn[i].end = <<Cm(135) \div 4, HalfCm(139) - (Cm(24) + Eighth(2))>>

\* reflection about x = pattern_width / 2
MirrorPt(pt) == <<PW - pt[1], pt[2]>>

\* the sides of a polyline, each as the set of its two ends
Sides(points) == {{points[i], points[i + 1]} : i \in 1 .. Len(points) - 1}

MirrorSides(points) ==
    {{MirrorPt(points[i]), MirrorPt(points[i + 1])} : i \in 1 .. Len(points) - 1}

\* f is the reflection of e: the same kind of entity in the same layer, on
\* the reflected points; an arc from s to e degrees becomes the arc from
\* 180 - e to 180 - s degrees
IsMirror(e, f) ==
    /\ e.dxftype = f.dxftype
    /\ e.layer = f.layer
    /\ CASE e.dxftype = "LINE" ->
              {MirrorPt(e.start), MirrorPt(e.end)} = {f.start, f.end}
         [] e.dxftype = "LWPOLYLINE" ->
              e.closed = f.closed /\ MirrorSides(e.points) = Sides(f.points)
         [] e.dxftype = "ARC" ->
              /\ f.center = MirrorPt(e.center)
              /\ f.radius = e.radius
              /\ f.start_angle % 360 = (540 - e.end_angle) % 360
              /\ f.end_angle % 360 = (540 - e.start_angle) % 360
         [] e.dxftype = "SPLINE" ->
              /\ Len(f.fit_points) = Len(e.fit_points)
              /\ \A k \in 1 .. Len(e.fit_points) :
                    f.fit_points[Len(e.fit_points) + 1 - k] = MirrorPt(e.fit_points[k])

\* C20: every entity draw_layered_pattern_dxf emits in the Collar, B5 and
\* Sleeve layers has another entity of the same layer that is its reflection
\* about x = pattern_width / 2.
C20_MirrorSymmetry ==
    Done("draw_layered_pattern_dxf") =>
    \A i \in 1 .. Len(Drawn) :
        Drawn[i].layer \in {"Collar", "B5", "Sleeve"} =>
        \E j \in 1 .. Len(Drawn) : j # i /\ IsMirror(Drawn[i], Drawn[j])

\* C20 witness: on the 131.125 wide pattern the left B5 arc (270 to 360
\* degrees, centre x = 7) and the right one (180 to 270 degrees, centre
\* x = 124.125) are each other's reflection.
C20_Witness ==
    /\ Done("draw_layered_pattern_dxf")
    /\ PW = Cm(131) + Eighth(1)
    /\ p_measurements["b5_width"] = Cm(14)
    /\ OfType("B5", "ARC")[1].center[1] = Cm(7)
    /\ OfType("B5", "ARC")[2].center[1] = Cm(124) + Eighth(1)
    /\ IsMirror(OfType("B5", "ARC")[1], OfType("B5", "ARC")[2])
    /\ IsMirror(OfType("B5", "ARC")[2], OfType("B5", "ARC")[1])

\* C21: a second call of draw_layered_pattern_dxf, on the record the first
\* call left (the same parameters, with armhole_length added), emits the same
\* entities in the same order under the same file name, and leaves the record
\* as it found it.
C21_SameGeometryTwice ==
    /\ [](Done("draw_layered_pattern_dxf_again") =>
            /\ results["draw_layered_pattern_dxf_again"].msp
                 = results["draw_layered_pattern_dxf"].msp
            /\ results["draw_layered_pattern_dxf_again"].file_name
                 = results["draw_layered_pattern_dxf"].file_name)
    /\ [][(~Done("draw_layered_pattern_dxf_again")
            /\ "draw_layered_pattern_dxf_again" \in DOMAIN results')
           => p_measurements' = p_measurements]_vars

\* C21 witness: the 135 x 97.5 pattern drawn twice; both drawings hold the
\* same 47 entities and the record carries armhole_length 24.25.
C21_Witness ==
    /\ Done("draw_layered_pattern_dxf_again")
    /\ PW = Cm(135)
    /\ PH = HalfCm(195)
    /\ p_measurements["collar_width"] = HalfCm(19)
    /\ p_measurements["armhole_length"] = Cm(24) + Eighth(2)
    /\ Len(results["draw_layered_pattern_dxf_again"].msp) = 47
    /\ Len(results["draw_layered_pattern_dxf"].msp) = 47

\* C23: in every result of either analysis with pattern_width > 0 and
\* pattern_height > 0, cut_loss_area_ideal = (bolt_width_ideal - pattern_width)
\* * pattern_height, and the efficiency_ideal the analysis computed (by
\* pattern_width / bolt_width_ideal in assign_ideal_values, by 1 -
\* cut_loss_area_ideal / (bolt_width_ideal * pattern_height) in the Mendeley
\* analyze_data) equals the value of the other formula too.
C23_IdealFormulasAgree ==
    AnalysisRun =>
    \A i \in 1 .. Len(analyses) :
        LET r == analyses[i] IN
        (r["pattern_width"] > 0 /\ r["pattern_height"] > 0) =>
        /\ r["cut_loss_area_ideal"]
             = (r["bolt_width_ideal"] - r["pattern_width"]) * r["pattern_height"]
        /\ r["efficiency_ideal"] = Frac(r["pattern_width"], r["bolt_width_ideal"])
        /\ r["efficiency_ideal"]
             = OneMinus(Frac(r["cut_loss_area_ideal"],
                             r["bolt_width_ideal"] * r["pattern_height"]))

\* C23 witness: the workshop result for the 139 x 100 pattern: ideal bolt 140,
\* cut-loss area 100, efficiency_ideal 139/140.
C23_Witness ==
    /\ outcome = Stage("workshop", "analyzed", "none")
    /\ Len(analyses) = 1
    /\ analyses[1]["pattern_width"] = Cm(139)
    /\ analyses[1]["pattern_height"] = Cm(100)
    /\ analyses[1]["bolt_width_ideal"] = Cm(140)
    /\ analyses[1]["cut_loss_area_ideal"] = 100 * Cm(1) * Cm(1)
    /\ analyses[1]["efficiency_ideal"] = [num |-> 139, den |-> 140]

\* C24 (as claimed): a run of calculate_and_draw on the record main builds
\* (no 'shirt_below_hip' key) enters assign_template_size three times,
\* get_fabric_width, draw_layered_pattern_dxf, draw_pdf_with_dimensions,
\* compute_efficiency and update_db in that order and ends without an
\* exception.
C24_MainRunReachesUpdateDb ==
    (Done("calculate_and_draw") /\ "shirt_below_hip" \notin DOMAIN user_measurements) =>
    /\ Ret("calculate_and_draw").exc = "none"
    /\ Ret("calculate_and_draw").trail
         = <<"assign_template_size", "assign_template_size", "assign_template_size",
             "get_fabric_width", "draw_layered_pattern_dxf",
             "draw_pdf_with_dimensions", "compute_efficiency", "update_db">>

\* the rows of a CSV file of one kind
RowsOfKind(file, kind) == {i \in DOMAIN file.rows : file.rows[i].kind = kind}

AllWritersDone ==
    /\ DOMAIN writers # {}
    /\ \A w \in DOMAIN writers : writers[w].pc = "done"

\* C22: when several calculate_and_draw runs call update_db concurrently on
\* the shared CSV file, the file ends, in every interleaving of the
\* exists-check, open and write steps, with exactly one header row and
\* exactly one data row per call.
C22_OneHeaderOneRowPerCall ==
    AllWritersDone =>
        /\ Cardinality(RowsOfKind(csv_file, "header")) = 1
        /\ \A w \in DOMAIN writers :
             Cardinality({i \in RowsOfKind(csv_file, "row") :
                            csv_file.rows[i].data["person_id"]
                                = writers[w].um["person_id"]}) = 1

\* the two end points of a primitive: of a line its start and end, of an arc
\* the points at its two angles, of a spline or an open polyline its first
\* and last point
EndPoints(e) ==
    CASE e.dxftype = "LINE" -> {e.start, e.end}
      [] e.dxftype = "ARC" -> {ArcPoint(e, e.start_angle), ArcPoint(e, e.end_angle)}
      [] e.dxftype = "SPLINE" -> {e.fit_points[1], e.fit_points[Len(e.fit_points)]}
      [] e.dxftype = "LWPOLYLINE" -> {e.points[1], e.points[Len(e.points)]}

\* a vertical line hanging from the middle of a sleevehead curve
IsArmholeLine(e) ==
    /\ e.dxftype = "LINE"
    /\ e.start[1] = e.end[1]
    /\ e.start[1] \in {Quarter(PW), ThreeQuarters(PW)}

\* the Bodice layer without the two armhole lines
BodiceBoundary == SelectSeq(InLayer("Bodice"), LAMBDA e : ~IsArmholeLine(e))

\* the primitives reached from those of S by stepping over shared end points
RECURSIVE Linked(_, _)
Linked(S, B) ==
    LET T == S \cup {j \in DOMAIN B :
                       \E i \in S : EndPoints(B[i]) \cap EndPoints(B[j]) # {}}
    IN  IF T = S THEN S ELSE Linked(T, B)

\* every end point meets an end point of exactly one other primitive, and
\* the primitives hang together as one loop
ChainsIntoOneLoop(B) ==
    /\ Len(B) = 12
    /\ \A i \in DOMAIN B :
          /\ Cardinality(EndPoints(B[i])) = 2
          /\ \A p \in EndPoints(B[i]) :
                Cardinality({j \in DOMAIN B \ {i} : p \in EndPoints(B[j])}) = 1
    /\ Linked({1}, B) = DOMAIN B

\* C25 as stated: for all parameter values the Bodice primitives other than
\* the two armhole lines chain end point to end point into one closed loop,
\* every end point coinciding with an end point of exactly one other
\* primitive.
C25_BodiceLoopAlways ==
    Done("draw_layered_pattern_dxf") => ChainsIntoOneLoop(BodiceBoundary)

\* C25 amended: the same holds for all parameter values with b5_width > 0,
\* sleevehead_radius > 0 and b5_width + sleevehead_radius <
\* pattern_width / 4, the values for which the twelve corner points of the
\* outline are distinct.
C25_BodiceLoopWhenFacingClearOfSleeve ==
    (/\ Done("draw_layered_pattern_dxf")
     /\ p_measurements["b5_width"] > 0
     /\ p_measurements["sleevehead_radius"] > 0
     /\ 4 * (p_measurements["b5_width"] + p_measurements["sleevehead_radius"]) < PW)
    => ChainsIntoOneLoop(BodiceBoundary)

\* C25 witness: the 135 cm pattern with a 12 cm facing and a 12 cm sleevehead
\* radius drawn; the first connector runs from (12, 72.5) to (21.75, 72.5),
\* where the left sleevehead curve starts.
C25_Witness ==
    /\ Done("draw_layered_pattern_dxf")
    /\ PW = Cm(135)
    /\ PH = HalfCm(195)
    /\ p_measurements["b5_width"] = Cm(12)
    /\ p_measurements["sleevehead_radius"] = Cm(12)
    /\ BodiceBoundary[9].start = <<Cm(12), HalfCm(145)>>
    /\ BodiceBoundary[9].end = <<Cm(21) + Eighth(6), HalfCm(145)>>
    /\ BodiceBoundary[7].fit_points[1] = BodiceBoundary[9].end

\* every point an entity is drawn through; an arc spans one quadrant, so it
\* lies between its two end points
EntityPoints(e) ==
    CASE e.dxftype = "LINE" -> {e.start, e.end}
      [] e.dxftype = "ARC" -> EndPoints(e)
      [] e.dxftype = "SPLINE" -> {e.fit_points[i] : i \in DOMAIN e.fit_points}
      [] e.dxftype = "LWPOLYLINE" -> {e.points[i] : i \in DOMAIN e.points}

InsideRectangle(p) == 0 <= p[1] /\ p[1] <= PW /\ 0 <= p[2] /\ p[2] <= PH

\* the measurements of the last subject are all positive
PositiveSubject ==
    /\ user_measurements["desired_shirt_length"] > 0
    /\ \A k \in {"bust_circ", "waist_circ", "hip_circ"} : user_measurements[k] > 0

\* C26: for every parameter set calculate_and_draw derives from positive body
\* measurements and a positive desired shirt length, every point
\* draw_layered_pattern_dxf emits lies inside [0, pattern_width] x
\* [0, pattern_height] and every segment has non-negative extent in its
\* stated direction: collar_width + sleevehead_radius <= pattern_width / 4,
\* b5_width + sleevehead_radius <= pattern_width / 4, and the armhole and
\* notch lines do not descend below y = 0.
C26_DrawingInsideRectangle ==
    (/\ Done("draw_layered_pattern_dxf")
     /\ Len(Drawn) > 0
     /\ PositiveSubject)
    => /\ \A i \in DOMAIN Drawn : \A p \in EntityPoints(Drawn[i]) : InsideRectangle(p)
       /\ 4 * (p_measurements["collar_width"] + p_measurements["sleevehead_radius"]) <= PW
       /\ 4 * (p_measurements["b5_width"] + p_measurements["sleevehead_radius"]) <= PW
       /\ \A i \in DOMAIN Drawn :
             Drawn[i].dxftype = "LINE" /\ Drawn[i].layer \in {"Bodice", "Sew"}
             => /\ Drawn[i].end[2] >= 0
                /\ Drawn[i].start[2] = Drawn[i].end[2]
                     => Drawn[i].start[1] <= Drawn[i].end[1]

\* the calls of calculate_and_draw that reached update_db, in call order
UpdateDbCalls ==
    SelectSeq(results["calls"],
              LAMBDA c : \E i \in DOMAIN c.trail : c.trail[i] = "update_db")

\* what a row must carry for the subject it was written for: the subject's
\* own measurements, the armhole length of its pattern width, and the
\* efficiency option and value of its pattern against its bolt
RowOfSubject(row, um) ==
    LET d == row.data
        bolt == um["bolt_width"]
    IN  /\ row.kind = "row"
        /\ DOMAIN um \subseteq DOMAIN d
        /\ \A k \in DOMAIN um \ {"person_id"} : d[k] = um[k]
        /\ d["person_id"] = um["person_id"]
        /\ d["pattern_height"] = um["desired_shirt_length"] + Cm(25) + HalfCm(5)
        /\ {"armhole_length", "Eff_Option", "Efficiency"} \subseteq DOMAIN d
        /\ 4 * d["armhole_length"] = d["pattern_width"] - 4 * d["collar_width"]
        /\ d["Eff_Option"] = IF d["pattern_width"] < bolt THEN 1
                             ELSE IF d["pattern_height"] < bolt THEN 2 ELSE 3
        /\ d["Efficiency"] =
              IF d["Eff_Option"] = 1 THEN Frac(d["pattern_width"], bolt)
              ELSE IF d["Eff_Option"] = 2 THEN Frac(d["pattern_height"], bolt)
              ELSE MinusOne

\* C28: after any sequence of sequential update_db calls starting from a
\* missing CSV file, the file is one header row followed by one data row per
\* call in call order; a call on an existing file appends one row and leaves
\* all earlier rows unchanged; and each row calculate_and_draw writes already
\* carries the armhole_length, Eff_Option and Efficiency of that subject.
C28_OneHeaderThenRowPerCall ==
    /\ [](Done("calls") /\ Len(UpdateDbCalls) > 0 =>
            /\ csv_file.exists
            /\ Len(csv_file.rows) = Len(UpdateDbCalls) + 1
            /\ csv_file.rows[1].kind = "header"
            /\ \A k \in DOMAIN UpdateDbCalls :
                  /\ RowOfSubject(csv_file.rows[k + 1], UpdateDbCalls[k].um)
                  /\ csv_file.rows[k + 1].fields = csv_file.rows[1].fields)
    /\ [][csv_file.exists /\ csv_file' # csv_file =>
            /\ Len(csv_file'.rows) = Len(csv_file.rows) + 1
            /\ SubSeq(csv_file'.rows, 1, Len(csv_file.rows)) = csv_file.rows
            /\ csv_file'.rows[Len(csv_file'.rows)].kind = "row"]_vars

\* C28 witness: five calls made on the file that was missing at the start;
\* the header, then the rows of p2, p1, p4, p3 and p1 again in that order, the
\* third row with the 161 cm pattern laid across the 150 cm bolt (option 2).
C28_Witness ==
    /\ Done("calls")
    /\ Len(UpdateDbCalls) = 5
    /\ Len(csv_file.rows) = 6
    /\ csv_file.rows[1].kind = "header"
    /\ [k \in 1 .. 5 |-> csv_file.rows[k + 1].data["person_id"]]
         = <<"p2", "p1", "p4", "p3", "p1">>
    /\ csv_file.rows[4].data["pattern_width"] = Cm(161)
    /\ csv_file.rows[4].data["Eff_Option"] = 2
    /\ csv_file.rows[4].data["armhole_length"] = Cm(30) + Eighth(6)

\* what draw_pdf_with_dimensions put on the axis
Patches == results["draw_pdf_with_dimensions"].patches

Lines == results["draw_pdf_with_dimensions"].lines

SeqRange(s) == {s[i] : i \in DOMAIN s}

CornersOfRectangle(r) ==
    {<<r.xy[1], r.xy[2]>>, <<r.xy[1] + r.width, r.xy[2]>>,
     <<r.xy[1] + r.width, r.xy[2] + r.height>>, <<r.xy[1], r.xy[2] + r.height>>}

EndsOfPlot(l) == {<<l.xs[1], l.ys[1]>>, <<l.xs[2], l.ys[2]>>}

\* the collar rectangles of the two drawings, each as its set of corners
DxfCollarCorners == {SeqRange(e.points) : e \in SeqRange(InLayer("Collar"))}

PdfCollarCorners ==
    {CornersOfRectangle(r) :
        r \in {q \in SeqRange(Patches) : q.patch = "Rectangle" /\ q.xy[2] = CollarLineY}}

\* the straight facing segments, each as its pair of end points
DxfFacingSegments == {EndPoints(e) : e \in SeqRange(OfType("B5", "LINE"))}

PdfFacingSegments ==
    {EndsOfPlot(l) :
        l \in {q \in SeqRange(Lines) :
                 /\ q.color = "b"
                 /\ \/ q.ys[1] = CollarLineY - p_measurements["b5_width"]
                    \/ /\ q.xs[1] = q.xs[2]
                       /\ q.xs[1] \in {p_measurements["b5_width"],
                                       PW - p_measurements["b5_width"]}
                       /\ q.ys[1] = CollarLineY}}

\* the sleevehead curves as (start, control, end)
DxfSleeveCurves == {e.fit_points : e \in SeqRange(OfType("Sleeve", "SPLINE"))}

PdfSleeveCurves ==
    {q.vertices : q \in {r \in SeqRange(Patches) :
                           r.patch = "PathPatch" /\ r.vertices[1][2] = CollarLineY}}

\* the armhole lines, each as its pair of end points
DxfArmholeLines ==
    {EndPoints(e) : e \in {q \in SeqRange(InLayer("Bodice")) : IsArmholeLine(q)}}

PdfArmholeLines ==
    {EndsOfPlot(l) :
        l \in {q \in SeqRange(Lines) :
                 /\ q.color = "b"
                 /\ q.xs[1] = q.xs[2]
                 /\ q.xs[1] \in {Quarter(PW), ThreeQuarters(PW)}}}

\* the x-positions of the notch and sew lines
DxfNotchPositions == {e.start[1] : e \in SeqRange(InLayer("Sew"))}

PdfNotchPositions == {l.xs[1] : l \in {q \in SeqRange(Lines) : q.color = "k"}}

\* C27: for identical parameters draw_layered_pattern_dxf and
\* draw_pdf_with_dimensions use the same collar rectangle corners, facing
\* segment end points, sleevehead curve start, control and end points,
\* armhole line end points and the same set of notch and sew line
\* x-positions.
C27_SameGeometryInDxfAndPdf ==
    (Done("draw_layered_pattern_dxf") /\ Done("draw_pdf_with_dimensions"))
    => /\ DxfCollarCorners = PdfCollarCorners
       /\ DxfFacingSegments = PdfFacingSegments
       /\ DxfSleeveCurves = PdfSleeveCurves
       /\ DxfArmholeLines = PdfArmholeLines
       /\ DxfNotchPositions = PdfNotchPositions

\* C29: in the Mendeley generate_plots the i-th efficiency_used value and the
\* i-th body-measurement value paired in a scatter plot belong to the same
\* subject, for every order of the input scan rows: the list analyze_data
\* returns is in the order of the scan_data it is plotted against.
C29_ScatterPairsOneSubject ==
    Done("generate_plots") =>
        \A i \in DOMAIN scan_data :
            /\ analyses[i]["person_id"] = scan_data[i]["Scan Code"]
            /\ \A c \in ScatterColumns :
                  results["generate_plots"][c][i] =
                     <<scan_data[i][c], mendeley_result(scan_data[i]).val["efficiency_used"]>>

MendeleyAnalyzed ==
    /\ outcome.prog = "mendeley"
    /\ outcome.stage \in {"analyzed", "pocketed", "plotted", "graphed"}

\* the three used fields of a result all hold the -1 sentinel
UsedAllSentinel(r) ==
    /\ r["cut_loss_width_used"] = SentinelWidth
    /\ r["cut_loss_area_used"] = SentinelArea
    /\ r["efficiency_used"] = MinusOne

\* the three used fields of a result all hold computed values
UsedAllComputed(r) ==
    /\ r["cut_loss_width_used"] = Cm(150) - r["pattern_width"]
    /\ r["cut_loss_width_used"] >= 0
    /\ r["cut_loss_area_used"] = r["cut_loss_width_used"] * r["pattern_height"]
    /\ r["efficiency_used"] = Frac(r["pattern_width"], Cm(150))

\* C30: the Mendeley analyze_data returns exactly one result per input row,
\* sorted by person_id; in each result the three used fields are all the -1
\* sentinel exactly when pattern_width > 150 and otherwise all computed with
\* cut_loss_width_used >= 0; the sentinel is set whatever the pattern height
\* is (the rotated orientation is not tried), whereas generate_bar_graphs
\* counts the same rows as flipped fits for the 150 cm bolt when
\* pattern_height <= 150.
C30_MendeleyResultsShape ==
    MendeleyAnalyzed =>
        /\ Len(analyses) = Len(scan_data)
        /\ \A id \in {scan_data[i]["Scan Code"] : i \in DOMAIN scan_data} :
              Cardinality({i \in DOMAIN analyses : analyses[i]["person_id"] = id})
                = Cardinality({i \in DOMAIN scan_data : scan_data[i]["Scan Code"] = id})
        /\ \A i \in DOMAIN scan_data : \E j \in DOMAIN analyses :
              /\ analyses[j]["person_id"] = scan_data[i]["Scan Code"]
              /\ analyses[j]["pattern_width"] = calculate_pattern_width(scan_data[i])
              /\ analyses[j]["pattern_height"] = calculate_pattern_height(scan_data[i])
        /\ \A i, j \in DOMAIN analyses :
              i < j => analyses[i]["person_id"] <= analyses[j]["person_id"]
        /\ \A i \in DOMAIN analyses :
              IF analyses[i]["pattern_width"] > Cm(150)
              THEN UsedAllSentinel(analyses[i])
              ELSE UsedAllComputed(analyses[i]) /\ ~UsedAllSentinel(analyses[i])
        /\ Done("generate_bar_graphs") =>
              results["generate_bar_graphs"][Cm(150)].flipped_fit =
                 Cardinality({i \in DOMAIN analyses :
                                /\ UsedAllSentinel(analyses[i])
                                /\ analyses[i]["pattern_height"] <= Cm(150)})

\* C30 witness: the file with scan 2 (chest 108) before scan 1 (chest 124)
\* analysed and graphed: the results are in the order 1, 2; scan 1, 155 cm
\* wide and 100 cm high, holds the sentinel and is the one flipped fit of the
\* 150 cm bolt, scan 2 is its one regular fit.
C30_Witness ==
    /\ outcome = Stage("mendeley", "graphed", "none")
    /\ Len(scan_data) = 2
    /\ scan_data[1]["Scan Code"] = 2
    /\ scan_data[2]["Scan Code"] = 1
    /\ analyses[1]["person_id"] = 1
    /\ analyses[1]["pattern_width"] = Cm(155)
    /\ analyses[1]["pattern_height"] = Cm(100)
    /\ UsedAllSentinel(analyses[1])
    /\ analyses[2]["person_id"] = 2
    /\ analyses[2]["cut_loss_width_used"] = Cm(11)
    /\ results["generate_bar_graphs"][Cm(150)]
         = [regular_fit |-> 1, flipped_fit |-> 1, embellished |-> 2]

====
